---- MODULE Spec2Model ----
(***************************************************************************)
(* A model of the assembly graph engine of Unicycler                        *)
(* (unicycler/assembly_graph.py): the AssemblyGraph object with its        *)
(* segment map, the two adjacency maps over signed segment numbers, the    *)
(* copy-depth map and the path registry, and the operations that rewrite   *)
(* them.  Python lists are sequences, dicts are functions whose DOMAIN is  *)
(* the key set.  Depths are whole numbers of depth units.                  *)
(***************************************************************************)
EXTENDS Integers, Sequences, FiniteSets, TLC

VARIABLES segments, seg_order, forward_links, reverse_links, copy_depths, paths, overlap,
          raised, last, pre, ops,
          pc, sorted_bridges, bridge_i, min_bridge_qual, right_bridged, left_bridged,
          seg_nums_used_in_bridges, single_copy_nums, applied, removed_segments,
          working_paths, final_paths

graph_vars == <<segments, seg_order, forward_links, reverse_links, copy_depths, paths, overlap>>
bridging_vars == <<pc, sorted_bridges, bridge_i, min_bridge_qual, right_bridged, left_bridged,
                   seg_nums_used_in_bridges, single_copy_nums, applied, removed_segments,
                   working_paths, final_paths>>
vars == <<segments, seg_order, forward_links, reverse_links, copy_depths, paths, overlap,
          raised, last, pre, ops,
          pc, sorted_bridges, bridge_i, min_bridge_qual, right_bridged, left_bridged,
          seg_nums_used_in_bridges, single_copy_nums, applied, removed_segments,
          working_paths, final_paths>>

----------------------------------------------------------------------------
(* Bounds of the model.                                                    *)

\* largest segment number the model lets an operation allocate
MaxSeg == 6
\* number of operations applied to one loaded graph
MaxOps == 1
\* number of link lines of the loaded graph file
MaxInitLinks == 4
\* longest path of the loaded path registry
MaxPathLen == 3
\* longest interior path of a bridge
MaxGraphPath == 2
\* most segments handed to one remove_segments call
MaxRemove == 2
\* longest path of the registry a merge is asked to rewrite
MaxMergePathLen == 5
\* number of bridges handed to one apply_bridges call
MaxBridges == 2

----------------------------------------------------------------------------
(* Generic helpers for lists and dicts.                                    *)

Abs(n) == IF n < 0 THEN -n ELSE n

Max(a, b) == IF a >= b THEN a ELSE b

SetMax(S) == CHOOSE m \in S : \A x \in S : x <= m

Range(s) == {s[i] : i \in 1..Len(s)}

\* x in lst
In(x, s) == \E i \in 1..Len(s) : s[i] = x

\* lst.count(x)
Count(x, s) == Cardinality({i \in 1..Len(s) : s[i] = x})

\* lst.index(x), for x in lst
IndexOf(x, s) == CHOOSE i \in 1..Len(s) : s[i] = x /\ \A j \in 1..(i-1) : s[j] # x

\* the list after lst.remove(x), for x in lst
RemoveFirst(x, s) ==
    LET i == IndexOf(x, s)
    IN  SubSeq(s, 1, i-1) \o SubSeq(s, i+1, Len(s))

Reversed(s) == [i \in 1..Len(s) |-> s[Len(s) + 1 - i]]

NegSeq(s) == [i \in 1..Len(s) |-> -s[i]]

AbsSeq(s) == [i \in 1..Len(s) |-> Abs(s[i])]

RECURSIVE SumSeq(_)
SumSeq(s) == IF s = <<>> THEN 0 ELSE s[1] + SumSeq(Tail(s))

\* Op applied to the value of v, with v worked out once
Bind(v, Op(_)) == CHOOSE out \in {Op(x) : x \in {v}} : TRUE

\* every ordering of a finite set: the orders in which list(a_set) can come out
RECURSIVE Perms(_)
Perms(S) ==
    IF S = {} THEN {<<>>}
    ELSE UNION {{<<x>> \o p : p \in Bind(S \ {x}, Perms)} : x \in S}

\* the ascending list of a finite set of integers
RECURSIVE SortedSeq(_)
SortedSeq(S) ==
    IF S = {} THEN <<>>
    ELSE LET m == CHOOSE x \in S : \A y \in S : x <= y
         IN  <<m>> \o SortedSeq(S \ {m})

\* d[k] = v with the key added when missing
Put(d, k, v) == [x \in (DOMAIN d) \cup {k} |-> IF x = k THEN v ELSE d[x]]

\* d.get(k, [])
Get(d, k) == IF k \in DOMAIN d THEN d[k] ELSE <<>>

EmptyDict == [x \in {} |-> <<>>]

----------------------------------------------------------------------------
(* Segments and their sequences.                                           *)

forward_bases == <<"A","T","G","C","a","t","g","c","R","Y","S","W","K","M","r","y","s","w","k","m",
                   "B","D","H","V","b","d","h","v","N","n",".","-","?">>
reverse_bases == <<"T","A","C","G","t","a","c","g","Y","R","S","W","M","K","y","r","s","w","m","k",
                   "V","H","D","B","v","h","d","b","N","n",".","-","?","N">>

\* reverse[forward.find(base)]: a base outside the table finds -1, the last entry
complement_base(base) ==
    IF In(base, forward_bases)
    THEN reverse_bases[IndexOf(base, forward_bases)]
    ELSE reverse_bases[Len(reverse_bases)]

reverse_complement(seq) == [i \in 1..Len(seq) |-> complement_base(seq[Len(seq) + 1 - i])]

\* Segment(number, depth, sequence, True, bridge) followed by
\* build_other_sequence_if_necessary(): the reverse sequence is always the
\* reverse complement of the forward one, so only the forward one is state
Segment(depth, sequence, bridge) ==
    [depth |-> depth, forward_sequence |-> sequence, bridge |-> bridge]

reverse_sequence(seg) == reverse_complement(seg.forward_sequence)

get_length(seg) == Len(seg.forward_sequence)

get_length_no_overlap(seg, ov) == Len(seg.forward_sequence) - ov

\* seq[:k]
Prefix(seq, k) == SubSeq(seq, 1, IF k < Len(seq) THEN k ELSE Len(seq))

\* seq[k:]
Suffix(seq, k) == SubSeq(seq, k + 1, Len(seq))

\* seq[-k:], which is the whole of seq when k = 0
LastK(seq, k) == IF k = 0 \/ k >= Len(seq) THEN seq ELSE SubSeq(seq, Len(seq) - k + 1, Len(seq))

get_seq_from_signed_seg_num(segs, signed_num) ==
    IF signed_num > 0 THEN segs[signed_num].forward_sequence
    ELSE reverse_sequence(segs[-signed_num])

\* max(self.segments) + 1; callers guard against the empty graph
get_next_available_seg_number(segs) == SetMax(DOMAIN segs) + 1

----------------------------------------------------------------------------
(* The link table: L.f is forward_links, L.r is reverse_links.             *)

Links(f, r) == [f |-> f, r |-> r]

\* if key not in d: d[key] = []; if val not in d[key]: d[key].append(val)
AppendIfMissing(d, key, val) ==
    LET cur == Get(d, key)
    IN  Put(d, key, IF In(val, cur) THEN cur ELSE Append(cur, val))

add_link(L, start, end) ==
    Bind(AppendIfMissing(L.f, start, end), LAMBDA f1 :
    Bind(AppendIfMissing(L.r, end, start), LAMBDA r1 :
         Links(AppendIfMissing(f1, -end, -start), AppendIfMissing(r1, -start, -end))))

\* if key in d: d[key].remove(val); list.remove raises ValueError when val is absent
RemoveFrom(d, key, val) ==
    IF key \notin DOMAIN d THEN [d |-> d, exc |-> "none"]
    ELSE IF In(val, d[key]) THEN [d |-> Put(d, key, RemoveFirst(val, d[key])), exc |-> "none"]
    ELSE [d |-> d, exc |-> "ValueError"]

\* the four removals run in order and the first ValueError leaves the rest undone
remove_link(L, start, end) ==
    Bind(RemoveFrom(L.f, start, end), LAMBDA s1 :
        IF s1.exc # "none" THEN [f |-> L.f, r |-> L.r, exc |-> s1.exc]
        ELSE Bind(RemoveFrom(s1.d, -end, -start), LAMBDA s2 :
        IF s2.exc # "none" THEN [f |-> s1.d, r |-> L.r, exc |-> s2.exc]
        ELSE Bind(RemoveFrom(L.r, end, start), LAMBDA s3 :
        IF s3.exc # "none" THEN [f |-> s2.d, r |-> L.r, exc |-> s3.exc]
        ELSE Bind(RemoveFrom(s3.d, -start, -end), LAMBDA s4 :
        IF s4.exc # "none" THEN [f |-> s2.d, r |-> s3.d, exc |-> s4.exc]
        ELSE [f |-> s2.d, r |-> s4.d, exc |-> "none"]))))

\* build_rc_links_if_necessary over the (start, end) pairs of links.items()
RECURSIVE build_rc_links_if_necessary(_, _)
build_rc_links_if_necessary(new_links, lines) ==
    IF lines = <<>> THEN new_links
    ELSE build_rc_links_if_necessary(AppendIfMissing(new_links, -lines[1][2], -lines[1][1]),
                                     Tail(lines))

\* load_from_gfa: forward_links[start].append(end) for every L line
RECURSIVE load_links(_, _)
load_links(links, lines) ==
    IF lines = <<>> THEN links
    ELSE load_links(Put(links, lines[1][1], Append(Get(links, lines[1][1]), lines[1][2])),
                    Tail(lines))

\* the (start, end) pairs of a link dict, keys ascending, each list in order
RECURSIVE LinkPairs(_, _)
LinkPairs(links, keys) ==
    IF keys = <<>> THEN <<>>
    ELSE [i \in 1..Len(links[keys[1]]) |-> <<keys[1], links[keys[1]][i]>>]
         \o LinkPairs(links, Tail(keys))

RECURSIVE build_reverse_from_pairs(_, _)
build_reverse_from_pairs(rev, pairs) ==
    IF pairs = <<>> THEN rev
    ELSE build_reverse_from_pairs(Put(rev, pairs[1][2], Append(Get(rev, pairs[1][2]), pairs[1][1])),
                                  Tail(pairs))

\* links.items() comes in the order the keys were inserted: key_order
build_reverse_links(links, key_order) ==
    build_reverse_from_pairs(EmptyDict, LinkPairs(links, key_order))

\* a rebuild of the link dict that drops the removed keys but filters no list
remove_keys_from_links(links, nums_to_remove) ==
    [n \in {k \in DOMAIN links : Abs(k) \notin nums_to_remove} |-> links[n]]

\* new_links[n_1] = [x for x in n_2 if abs(x) not in nums], empty lists and removed keys dropped
remove_nums_from_links(links, nums_to_remove) ==
    LET kept(n) == SelectSeq(links[n], LAMBDA x : Abs(x) \notin nums_to_remove)
        keys == {n \in DOMAIN links : Abs(n) \notin nums_to_remove /\ kept(n) # <<>>}
    IN  [n \in keys |-> kept(n)]

----------------------------------------------------------------------------
(* The graph as a value: G.segments with G.order the order of its keys (a   *)
(* dict iterates in insertion order), G.f (forward_links), G.r             *)
(* (reverse_links), G.copy_depths, G.paths.                                *)

Graph(segs, order, f, r, cd, ps) ==
    [segments |-> segs, order |-> order, f |-> f, r |-> r, copy_depths |-> cd, paths |-> ps]

Restrict(d, keys) == [k \in keys |-> d[k]]

remove_segments(G, nums_to_remove) ==
    LET touched(name) == \E i \in 1..Len(G.paths[name]) : Abs(G.paths[name][i]) \in nums_to_remove
    IN  Graph(Restrict(G.segments, DOMAIN G.segments \ nums_to_remove),
              SelectSeq(G.order, LAMBDA n : n \notin nums_to_remove),
              remove_nums_from_links(G.f, nums_to_remove),
              remove_nums_from_links(G.r, nums_to_remove),
              Restrict(G.copy_depths, DOMAIN G.copy_depths \ nums_to_remove),
              Restrict(G.paths, {name \in DOMAIN G.paths : ~touched(name)}))

dead_end_count(G, seg_num) ==
    (IF Get(G.f, seg_num) = <<>> THEN 1 ELSE 0) + (IF Get(G.r, seg_num) = <<>> THEN 1 ELSE 0)

RECURSIVE SumOver(_, _)
SumOver(S, f) ==
    IF S = {} THEN 0
    ELSE LET x == CHOOSE y \in S : TRUE IN f[x] + SumOver(S \ {x}, f)

total_dead_end_count(G) ==
    SumOver(DOMAIN G.segments, [n \in DOMAIN G.segments |-> dead_end_count(G, n)])

\* Expand forward: None marks the KeyError of reverse_links[potential]
RECURSIVE expand_forward(_, _)
expand_forward(G, simple_path) ==
    Bind(simple_path[Len(simple_path)], LAMBDA tip :
        IF tip \notin DOMAIN G.f \/ Len(G.f[tip]) # 1 THEN [path |-> simple_path, exc |-> "none"]
        ELSE Bind(G.f[tip][1], LAMBDA potential :
                 IF In(potential, simple_path) \/ In(-potential, simple_path)
                 THEN [path |-> simple_path, exc |-> "none"]
                 ELSE IF potential \notin DOMAIN G.r
                 THEN [path |-> simple_path, exc |-> "KeyError"]
                 ELSE IF Len(G.r[potential]) = 1 /\ G.r[potential][1] = tip
                 THEN Bind(Append(simple_path, potential), LAMBDA longer :
                               expand_forward(G, longer))
                 ELSE [path |-> simple_path, exc |-> "none"]))

RECURSIVE expand_backward(_, _)
expand_backward(G, simple_path) ==
    Bind(simple_path[1], LAMBDA tip :
        IF tip \notin DOMAIN G.r \/ Len(G.r[tip]) # 1 THEN [path |-> simple_path, exc |-> "none"]
        ELSE Bind(G.r[tip][1], LAMBDA potential :
                 IF In(potential, simple_path) \/ In(-potential, simple_path)
                 THEN [path |-> simple_path, exc |-> "none"]
                 ELSE IF potential \notin DOMAIN G.f
                 THEN [path |-> simple_path, exc |-> "KeyError"]
                 ELSE IF Len(G.f[potential]) = 1 /\ G.f[potential][1] = tip
                 THEN Bind(<<potential>> \o simple_path, LAMBDA longer :
                               expand_backward(G, longer))
                 ELSE [path |-> simple_path, exc |-> "none"]))

get_simple_path(G, starting_seg) ==
    Bind(expand_forward(G, <<starting_seg>>), LAMBDA fw :
        IF fw.exc # "none" THEN fw ELSE expand_backward(G, fw.path))

\* the sequence of a path; the asserts and the dict lookups can raise
RECURSIVE path_sequence_from(_, _, _, _, _)
path_sequence_from(G, ov, path_segments, i, path_sequence) ==
    IF i > Len(path_segments) THEN [seq |-> path_sequence, exc |-> "none"]
    ELSE LET seg_num == path_segments[i]
             prev == path_segments[i-1]
         IN  IF Abs(seg_num) \notin DOMAIN G.segments THEN [seq |-> path_sequence, exc |-> "KeyError"]
             ELSE LET seg_sequence == get_seq_from_signed_seg_num(G.segments, seg_num)
                  IN  IF prev \notin DOMAIN G.f THEN [seq |-> path_sequence, exc |-> "KeyError"]
                      ELSE IF ~In(seg_num, G.f[prev])
                      THEN [seq |-> path_sequence, exc |-> "AssertionError"]
                      ELSE IF ov > 0 /\ LastK(path_sequence, ov) # Prefix(seg_sequence, ov)
                      THEN [seq |-> path_sequence, exc |-> "AssertionError"]
                      ELSE path_sequence_from(G, ov, path_segments, i + 1,
                                              path_sequence \o Suffix(seg_sequence, ov))

get_path_sequence(G, ov, path_segments) ==
    IF path_segments = <<>> THEN [seq |-> <<>>, exc |-> "none"]
    ELSE IF Abs(path_segments[1]) \notin DOMAIN G.segments THEN [seq |-> <<>>, exc |-> "KeyError"]
    ELSE path_sequence_from(G, ov, path_segments, 2,
                            get_seq_from_signed_seg_num(G.segments, path_segments[1]))

----------------------------------------------------------------------------
(* List helpers of the path registry.                                      *)

\* lst[i:i+len(pattern)] == pattern, i counted from 1
MatchAt(lst, pattern, i) ==
    i + Len(pattern) - 1 <= Len(lst) /\ SubSeq(lst, i, i + Len(pattern) - 1) = pattern

Contains(lst, pattern) == \E i \in 1..Len(lst) : MatchAt(lst, pattern, i)

RECURSIVE find_replace_in_list(_, _, _)
find_replace_in_list(lst, pattern, replacement) ==
    IF ~Contains(lst, pattern) THEN lst
    ELSE Bind(CHOOSE j \in 1..Len(lst) :
                  MatchAt(lst, pattern, j) /\ \A k \in 1..(j-1) : ~MatchAt(lst, pattern, k),
              LAMBDA i :
                  Bind(SubSeq(lst, 1, i-1) \o replacement
                       \o SubSeq(lst, i + Len(pattern), Len(lst)),
                       LAMBDA replaced : find_replace_in_list(replaced, pattern, replacement)))

find_replace_one_val_in_list(lst, val, replacement) ==
    [i \in 1..Len(lst) |-> IF lst[i] = val THEN replacement ELSE lst[i]]

\* the pieces of path between the occurrences of seg, before the short ones are dropped
RECURSIVE split_pieces(_, _)
split_pieces(path, seg) ==
    IF In(seg, path)
    THEN Bind(IndexOf(seg, path), LAMBDA seg_i :
             Bind(SubSeq(path, seg_i + 1, Len(path)), LAMBDA rest :
                 <<SubSeq(path, 1, seg_i - 1)>> \o split_pieces(rest, seg)))
    ELSE <<path>>

\* split_path without the filter that throws out the lists of 1
split_path_unfiltered(path, seg) == split_pieces(path, seg)

split_path(path, seg) == SelectSeq(split_pieces(path, seg), LAMBDA x : Len(x) > 1)

RECURSIVE FlatMapSplit(_, _)
FlatMapSplit(path_parts, seg) ==
    IF path_parts = <<>> THEN <<>>
    ELSE Bind(Tail(path_parts), LAMBDA rest :
             split_path(path_parts[1], seg) \o FlatMapSplit(rest, seg))

RECURSIVE split_parts_multiple(_, _)
split_parts_multiple(path_parts, segs) ==
    IF segs = <<>> THEN path_parts
    ELSE Bind(FlatMapSplit(path_parts, segs[1]), LAMBDA new_path_parts :
             Bind(Tail(segs), LAMBDA rest : split_parts_multiple(new_path_parts, rest)))

split_path_multiple(path, segs) == split_parts_multiple(<<path>>, segs)

insert_num_in_list(lst, val_1, val_2, insert_val) ==
    IF Len(lst) < 2 THEN lst
    ELSE LET piece(i) == IF lst[i] = val_1 /\ lst[i+1] = val_2 THEN <<lst[i], insert_val>>
                         ELSE <<lst[i]>>
             RECURSIVE build(_)
             build(i) == IF i >= Len(lst) THEN <<lst[Len(lst)]>> ELSE piece(i) \o build(i + 1)
         IN  build(1)

----------------------------------------------------------------------------
(* merge_simple_path                                                       *)

\* weighted_average_list of unicycler.misc: sum(d * w) / sum(w), in whole depth units
weighted_average_list(depths, weights) ==
    SumSeq([i \in 1..Len(depths) |-> depths[i] * weights[i]]) \div SumSeq(weights)

RECURSIVE add_outgoing(_, _, _)
add_outgoing(L, new_seg_num, links) ==
    IF links = <<>> THEN L
    ELSE Bind(add_link(L, new_seg_num, links[1]), LAMBDA L1 :
             add_outgoing(L1, new_seg_num, Tail(links)))

RECURSIVE add_incoming(_, _, _)
add_incoming(L, new_seg_num, links) ==
    IF links = <<>> THEN L
    ELSE Bind(add_link(L, links[1], new_seg_num), LAMBDA L1 :
             add_incoming(L1, new_seg_num, Tail(links)))

\* the name of the i-th piece of a split path: path_name + '_' + str(i)
PieceName(path_name, i) == Append(path_name, i)

\* the path registry after the merge, built from the copy taken before the removal
merged_paths(paths_copy, merge_path, new_seg_num) ==
    LET flipped_merge_path == NegSeq(Reversed(merge_path))
        replaced(name) ==
            Bind(find_replace_in_list(paths_copy[name], merge_path, <<new_seg_num>>),
                 LAMBDA once : find_replace_in_list(once, flipped_merge_path, <<-new_seg_num>>))
    IN  Bind([name \in DOMAIN paths_copy |->
                 split_path_multiple(replaced(name), merge_path \o flipped_merge_path)],
             LAMBDA split_paths :
                 LET whole == {name \in DOMAIN paths_copy : Len(split_paths[name]) = 1}
                     pieces == UNION {{PieceName(name, i) : i \in 1..Len(split_paths[name])} :
                                      name \in {n \in DOMAIN paths_copy : Len(split_paths[n]) > 1}}
                 IN  [nm \in whole \cup pieces |->
                         IF nm \in whole THEN split_paths[nm][1]
                         ELSE split_paths[SubSeq(nm, 1, Len(nm) - 1)][nm[Len(nm)]]])

merge_simple_path(G, ov, merge_path) ==
    LET start == merge_path[1]
        end == merge_path[Len(merge_path)]
        depths == [i \in 1..Len(merge_path) |-> G.segments[Abs(merge_path[i])].depth]
        lengths == [i \in 1..Len(merge_path) |-> get_length(G.segments[Abs(merge_path[i])]) - ov]
        mean_depth == IF SumSeq(lengths) > 0 THEN weighted_average_list(depths, lengths) ELSE 1
    IN  IF \E i \in 1..Len(merge_path) : Abs(merge_path[i]) \notin DOMAIN G.segments
        THEN [G |-> G, exc |-> "KeyError", new |-> 0]
        ELSE Bind(get_path_sequence(G, ov, merge_path), LAMBDA merged :
        IF merged.exc # "none" THEN [G |-> G, exc |-> merged.exc, new |-> 0]
        ELSE Bind(get_next_available_seg_number(G.segments), LAMBDA new_seg_num :
             Bind(find_replace_one_val_in_list(
                      find_replace_one_val_in_list(Get(G.f, end), start, new_seg_num),
                      -end, -new_seg_num), LAMBDA outgoing_links :
             Bind(find_replace_one_val_in_list(
                      find_replace_one_val_in_list(Get(G.r, start), end, new_seg_num),
                      -start, -new_seg_num), LAMBDA incoming_links :
             Bind(remove_segments(G, Range(AbsSeq(merge_path))), LAMBDA G1 :
             Bind(add_outgoing(Links(G1.f, G1.r), new_seg_num, outgoing_links), LAMBDA L1 :
             Bind(add_incoming(L1, new_seg_num, incoming_links), LAMBDA L2 :
                  [G |-> Graph(Put(G1.segments, new_seg_num,
                                   Segment(mean_depth, merged.seq, "none")),
                               Append(G1.order, new_seg_num),
                               L2.f, L2.r, G1.copy_depths,
                               merged_paths(G.paths, merge_path, new_seg_num)),
                   exc |-> "none", new |-> new_seg_num])))))))

----------------
(* repair_multi_way_junctions: one pass of its while loop finds the first  *)
(* junction in the order of seg_nums and rewrites it.                      *)

UnionOver(S, d) == UNION {Range(Get(d, x)) : x \in S}

junction_ends(G, seg_num) == Range(Get(G.f, seg_num))

junction_starts(G, seg_num) == UnionOver(junction_ends(G, seg_num), G.r)

\* the tests of the loop body with three downstream segments asked for
is_wide_junction(G, seg_num) ==
    /\ seg_num \in DOMAIN G.f
    /\ Cardinality(junction_ends(G, seg_num)) >= 3
    /\ Cardinality(junction_starts(G, seg_num)) >= 2
    /\ UnionOver(junction_starts(G, seg_num), G.f) = junction_ends(G, seg_num)

\* the three tests that let the loop body reach the rewrite for seg_num
is_junction(G, seg_num) ==
    /\ seg_num \in DOMAIN G.f
    /\ Cardinality(junction_ends(G, seg_num)) >= 2
    /\ Cardinality(junction_starts(G, seg_num)) >= 2
    /\ UnionOver(junction_starts(G, seg_num), G.f) = junction_ends(G, seg_num)

\* list(self.segments) + [-x for x in self.segments]
seg_nums_both_strands(G) == G.order \o NegSeq(G.order)

has_junction(G) == \E i \in 1..Len(G.order) : is_junction(G, G.order[i]) \/ is_junction(G, -G.order[i])

first_junction(G) ==
    Bind(seg_nums_both_strands(G), LAMBDA seg_nums :
    Bind({j \in 1..Len(seg_nums) : is_junction(G, seg_nums[j])}, LAMBDA found :
        seg_nums[CHOOSE j \in found : \A k \in found : j <= k]))

\* the pairs (start_num, end_num) in the order of the two nested loops
PairList(starting_segs, ending_segs) ==
    [k \in 1..(Len(starting_segs) * Len(ending_segs)) |->
        <<starting_segs[((k - 1) \div Len(ending_segs)) + 1],
          ending_segs[((k - 1) % Len(ending_segs)) + 1]>>]

RECURSIVE insert_bridge_in_path(_, _, _)
insert_bridge_in_path(path, pairs, bridge_num) ==
    IF pairs = <<>> THEN path
    ELSE Bind(insert_num_in_list(path, pairs[1][1], pairs[1][2], bridge_num), LAMBDA forward :
         Bind(insert_num_in_list(forward, -pairs[1][2], -pairs[1][1], -bridge_num), LAMBDA both :
              insert_bridge_in_path(both, Tail(pairs), bridge_num)))

\* the rebuilt adjacency maps: the assignments of the loop over ending_segs
\* come after, and so override, those of the loop over starting_segs
junction_forward_links(f, starting_segs, ending_segs, bridge_num) ==
    LET S == Range(starting_segs)
        E == Range(ending_segs)
        keys == DOMAIN f \cup S \cup {-e : e \in E} \cup {bridge_num, -bridge_num}
    IN  [k \in keys |-> IF k = bridge_num THEN ending_segs
                        ELSE IF k = -bridge_num THEN NegSeq(starting_segs)
                        ELSE IF -k \in E THEN <<-bridge_num>>
                        ELSE IF k \in S THEN <<bridge_num>>
                        ELSE f[k]]

junction_reverse_links(r, starting_segs, ending_segs, bridge_num) ==
    LET S == Range(starting_segs)
        E == Range(ending_segs)
        keys == DOMAIN r \cup E \cup {-x : x \in S} \cup {bridge_num, -bridge_num}
    IN  [k \in keys |-> IF k = bridge_num THEN starting_segs
                        ELSE IF k = -bridge_num THEN NegSeq(ending_segs)
                        ELSE IF k \in E THEN <<bridge_num>>
                        ELSE IF -k \in S THEN <<-bridge_num>>
                        ELSE r[k]]

\* depth of the bridging segment: (start_seg_depth_sum + end_seg_depth_sum) / 2.0
junction_depth(G, starting_segs, ending_segs) ==
    (SumSeq([i \in 1..Len(starting_segs) |-> G.segments[Abs(starting_segs[i])].depth])
     + SumSeq([i \in 1..Len(ending_segs) |-> G.segments[Abs(ending_segs[i])].depth])) \div 2

\* the rewrite of one junction; starting_segs and ending_segs are the lists
\* list(set) produced, in whatever order the sets iterate
repair_junction(G, ov, starting_segs, ending_segs) ==
    LET bridge_seq == Prefix(get_seq_from_signed_seg_num(G.segments, ending_segs[1]), ov)
        overlaps_agree ==
            /\ \A i \in 1..Len(starting_segs) :
                   bridge_seq = LastK(get_seq_from_signed_seg_num(G.segments, starting_segs[i]), ov)
            /\ \A i \in 1..Len(ending_segs) :
                   bridge_seq = Prefix(get_seq_from_signed_seg_num(G.segments, ending_segs[i]), ov)
        bridge_num == get_next_available_seg_number(G.segments)
        bridge_seg == Segment(junction_depth(G, starting_segs, ending_segs), bridge_seq, "none")
        pairs == PairList(starting_segs, ending_segs)
    IN  IF \E x \in Range(starting_segs) \cup Range(ending_segs) : Abs(x) \notin DOMAIN G.segments
        THEN [G |-> G, exc |-> "KeyError", new |-> 0]
        ELSE IF ~overlaps_agree THEN [G |-> G, exc |-> "AssertionError", new |-> 0]
        ELSE [G |-> Graph(Put(G.segments, bridge_num, bridge_seg), Append(G.order, bridge_num),
                          junction_forward_links(G.f, starting_segs, ending_segs, bridge_num),
                          junction_reverse_links(G.r, starting_segs, ending_segs, bridge_num),
                          G.copy_depths,
                          [name \in DOMAIN G.paths |->
                              insert_bridge_in_path(G.paths[name], pairs, bridge_num)]),
              exc |-> "none", new |-> bridge_num]

----------------------------------------------------------------------------
(* apply_bridge and remove_segment_depth                                   *)

\* for link in self.forward_links[start]: self.remove_link(start, link)
\* The list iterator keeps an index into the very list remove_link shrinks:
\* pass i reads the entry now at position i, and the loop ends when i runs
\* past the current length.
RECURSIVE remove_outgoing_loop(_, _, _)
remove_outgoing_loop(L, start, i) ==
    IF i > Len(L.f[start]) THEN [f |-> L.f, r |-> L.r, exc |-> "none"]
    ELSE Bind(remove_link(L, start, L.f[start][i]), LAMBDA res :
             IF res.exc # "none" THEN res
             ELSE remove_outgoing_loop(res, start, i + 1))

\* for link in self.reverse_links[end]: self.remove_link(link, end)
RECURSIVE remove_incoming_loop(_, _, _)
remove_incoming_loop(L, end, i) ==
    IF i > Len(L.r[end]) THEN [f |-> L.f, r |-> L.r, exc |-> "none"]
    ELSE Bind(remove_link(L, L.r[end][i], end), LAMBDA res :
             IF res.exc # "none" THEN res
             ELSE remove_incoming_loop(res, end, i + 1))

\* the first copy depth, whatever its distance from the depth to remove
first_depth_index(cd, depth_to_remove) == 1

\* min(copy_depths, key=lambda x: abs(x - depth_to_remove)): the first of the closest
closest_depth_index(cd, depth_to_remove) ==
    CHOOSE i \in 1..Len(cd) :
        /\ \A j \in 1..Len(cd) : Abs(cd[i] - depth_to_remove) <= Abs(cd[j] - depth_to_remove)
        /\ \A j \in 1..(i-1) : Abs(cd[j] - depth_to_remove) > Abs(cd[i] - depth_to_remove)

remove_segment_depth(G, signed_num, depth_to_remove) ==
    LET seg_num == Abs(signed_num)
        seg == G.segments[seg_num]
        new_segs == [G.segments EXCEPT ![seg_num].depth = Max(0, seg.depth - depth_to_remove)]
        cd == G.copy_depths[seg_num]
        i == closest_depth_index(cd, depth_to_remove)
    IN  IF seg_num \notin DOMAIN G.segments THEN G
        ELSE IF seg_num \notin DOMAIN G.copy_depths \/ G.copy_depths[seg_num] = <<>>
        THEN [G EXCEPT !.segments = new_segs]
        ELSE [G EXCEPT !.segments = new_segs,
                       !.copy_depths = [G.copy_depths EXCEPT ![seg_num] =
                                            SubSeq(cd, 1, i - 1) \o SubSeq(cd, i + 1, Len(cd))]]

\* the graph with the depths of the path as they were
keep_path_depth(G, graph_path, depth_to_remove) == G

RECURSIVE remove_path_depth(_, _, _)
remove_path_depth(G, graph_path, depth_to_remove) ==
    IF graph_path = <<>> THEN G
    ELSE Bind(remove_segment_depth(G, graph_path[1], depth_to_remove), LAMBDA G1 :
             remove_path_depth(G1, Tail(graph_path), depth_to_remove))

\* bridge is the record of the bridge the new segment comes from
apply_bridge(G, bridge, start, end, sequence, graph_path) ==
    Bind(IF start \in DOMAIN G.f THEN remove_outgoing_loop(Links(G.f, G.r), start, 1)
         ELSE [f |-> G.f, r |-> G.r, exc |-> "none"], LAMBDA s1 :
        IF s1.exc # "none"
        THEN [G |-> [G EXCEPT !.f = s1.f, !.r = s1.r], exc |-> s1.exc, new |-> 0]
        ELSE Bind(IF end \in DOMAIN s1.r THEN remove_incoming_loop(s1, end, 1) ELSE s1, LAMBDA s2 :
        IF s2.exc # "none"
        THEN [G |-> [G EXCEPT !.f = s2.f, !.r = s2.r], exc |-> s2.exc, new |-> 0]
        ELSE Bind(get_next_available_seg_number(G.segments), LAMBDA new_seg_num :
             Bind(add_link(s2, start, new_seg_num), LAMBDA L3 :
             Bind(add_link(L3, new_seg_num, end), LAMBDA L4 :
             Bind(Graph(Put(G.segments, new_seg_num, Segment(bridge.depth, sequence, bridge.kind)),
                        Append(G.order, new_seg_num), L4.f, L4.r, G.copy_depths, G.paths),
                  LAMBDA G3 :
                  [G |-> remove_path_depth(G3, graph_path, bridge.depth),
                   exc |-> "none", new |-> new_seg_num]))))))

----------------
(* renumber_segments                                                       *)

\* sorted(values, reverse=True, key=length): a stable sort, so segments of
\* equal length keep the order the dict iterates them in
\* sorted() without its key: the segments in the order the dict iterates them
sorted_in_dict_order(segs, order) == order

RECURSIVE sorted_by_length_desc(_, _)
sorted_by_length_desc(segs, order) ==
    IF order = <<>> THEN <<>>
    ELSE LET longest == SetMax({get_length(segs[order[i]]) : i \in 1..Len(order)})
             first == order[CHOOSE i \in 1..Len(order) :
                               /\ get_length(segs[order[i]]) = longest
                               /\ \A j \in 1..(i-1) : get_length(segs[order[j]]) # longest]
         IN  <<first>> \o sorted_by_length_desc(segs, SelectSeq(order, LAMBDA n : n # first))

\* changes = dict(zip(old_nums, new_nums)) on a signed number
renumber_change(old_nums, x) ==
    IF x > 0 THEN IndexOf(x, old_nums) ELSE -IndexOf(-x, old_nums)

renumber_segments(G) ==
    Bind(sorted_by_length_desc(G.segments, G.order), LAMBDA old_nums :
    LET ch(x) == renumber_change(old_nums, x)
        known(x) == Abs(x) \in DOMAIN G.segments
        relink(d) == [k \in {ch(x) : x \in DOMAIN d} |->
                         LET x == CHOOSE y \in DOMAIN d : ch(y) = k
                         IN  [i \in 1..Len(d[x]) |-> ch(d[x][i])]]
        names(d) == DOMAIN d \cup UNION {Range(d[k]) : k \in DOMAIN d}
        G1 == [G EXCEPT !.segments = [n \in 1..Len(old_nums) |-> G.segments[old_nums[n]]],
                        !.order = [i \in 1..Len(G.order) |-> ch(G.order[i])]]
        G2 == [G1 EXCEPT !.f = relink(G.f)]
        G3 == [G2 EXCEPT !.r = relink(G.r)]
        G4 == [G3 EXCEPT !.copy_depths = [n \in {ch(x) : x \in DOMAIN G.copy_depths} |->
                                             G.copy_depths[old_nums[n]]]]
        G5 == [G4 EXCEPT !.paths = [name \in DOMAIN G.paths |->
                                       [i \in 1..Len(G.paths[name]) |-> ch(G.paths[name][i])]]]
    IN  \* changes[x] raises KeyError for a number that is not a segment, and
        \* what was rebuilt before that stays rebuilt
        IF \E x \in names(G.f) : ~known(x) THEN [G |-> G1, exc |-> "KeyError"]
        ELSE IF \E x \in names(G.r) : ~known(x) THEN [G |-> G2, exc |-> "KeyError"]
        ELSE IF \E x \in DOMAIN G.copy_depths : ~known(x) THEN [G |-> G3, exc |-> "KeyError"]
        ELSE IF \E name \in DOMAIN G.paths : \E x \in Range(G.paths[name]) : ~known(x)
        THEN [G |-> G4, exc |-> "KeyError"]
        ELSE [G |-> G5, exc |-> "none"])

----------------------------------------------------------------------------
(* The graph object as state.                                              *)

CurG == Graph(segments, seg_order, forward_links, reverse_links, copy_depths, paths)

SetG(G) ==
    /\ segments' = G.segments
    /\ seg_order' = G.order
    /\ forward_links' = G.f
    /\ reverse_links' = G.r
    /\ copy_depths' = G.copy_depths
    /\ paths' = G.paths

Signed(S) == S \cup {-n : n \in S}

\* what the last operation was called with and what it returned
Last(op, a, b, path, ret) == [op |-> op, a |-> a, b |-> b, path |-> path, ret |-> ret]

\* bookkeeping of a finished call: the graph before it, and the exception if any
Done(op, a, b, path, ret, exc) ==
    /\ last' = Last(op, a, b, path, ret)
    /\ pre' = CurG
    /\ raised' = exc
    /\ ops' = ops + 1

\* a call can start when no exception ended the program and no handler is running
Idle == raised = "none" /\ pc = "idle" /\ ops < MaxOps

----------------------------------------------------------------------------
(* The loaded graph: __init__ and load_from_gfa.                           *)

\* segments of the loaded file; every sequence begins and ends with the
\* self-complementary base S, so any link agrees with an overlap of 1
InitSegments ==
    <<Segment(8, <<"S","A","A","S">>, "none"),
      Segment(4, <<"S","T","S">>, "none"),
      Segment(8, <<"S","A","S">>, "none"),
      Segment(12, <<"S","S">>, "none")>>

\* copy depths of the loaded graph: 1, 2 and 4 single-copy, 3 a two-copy repeat
InitCopyDepths ==
    [n \in 1..4 |-> IF n = 3 THEN <<4, 4>> ELSE <<InitSegments[n].depth>>]

\* the L lines a loaded file may hold, in file order
InitLinkPool ==
    <<<<1, 3>>, <<1, 4>>, <<2, 3>>, <<2, 4>>, <<3, 1>>, <<4, 2>>, <<1, -1>>, <<1, -2>>, <<2, -2>>>>

RECURSIVE Dedup(_)
Dedup(s) ==
    IF s = <<>> THEN <<>>
    ELSE LET rest == Dedup(SubSeq(s, 1, Len(s) - 1))
         IN  IF In(s[Len(s)], rest) THEN rest ELSE Append(rest, s[Len(s)])

\* the L lines chosen from the pool, kept in pool order
ChosenLines(chosen) ==
    LET idx == SortedSeq(chosen) IN [i \in 1..Len(idx) |-> InitLinkPool[idx[i]]]

\* links.items() of the dict load_from_gfa filled, as (start, end) pairs
loaded_pairs(lines) ==
    LinkPairs(load_links(EmptyDict, lines), Dedup([i \in 1..Len(lines) |-> lines[i][1]]))

\* forward_links as load_from_gfa leaves it, and the order of its keys
loaded_forward_links(lines) ==
    build_rc_links_if_necessary(load_links(EmptyDict, lines), loaded_pairs(lines))

loaded_key_order(lines) ==
    LET pairs == loaded_pairs(lines)
    IN  Dedup([i \in 1..Len(pairs) |-> pairs[i][1]] \o [i \in 1..Len(pairs) |-> -pairs[i][2]])

\* the walks of n signed numbers along the links f
Walks(f, n) ==
    {w \in [1..n -> DOMAIN f \cup UNION {Range(f[k]) : k \in DOMAIN f}] :
        \A i \in 1..(n-1) : In(w[i+1], Get(f, w[i]))}

WalksUpTo(f, n) == UNION {Walks(f, k) : k \in 2..n}

NoBridging ==
    /\ pc = "idle"
    /\ sorted_bridges = <<>>
    /\ bridge_i = 0
    /\ min_bridge_qual = 0
    /\ right_bridged = {}
    /\ left_bridged = {}
    /\ seg_nums_used_in_bridges = <<>>
    /\ single_copy_nums = {}
    /\ applied = <<>>
    /\ removed_segments = <<>>
    /\ working_paths = <<>>
    /\ final_paths = <<>>

Init ==
    /\ \E chosen \in SUBSET (1..Len(InitLinkPool)) :
          /\ Cardinality(chosen) <= MaxInitLinks
          /\ forward_links = loaded_forward_links(ChosenLines(chosen))
          /\ reverse_links = build_reverse_links(forward_links, loaded_key_order(ChosenLines(chosen)))
    /\ segments = [n \in 1..Len(InitSegments) |-> InitSegments[n]]
    /\ seg_order = [n \in 1..Len(InitSegments) |-> n]
    /\ copy_depths = InitCopyDepths
    /\ \E w \in {<<>>} \cup WalksUpTo(forward_links, MaxPathLen) :
          paths = [name \in (IF w = <<>> THEN {} ELSE {<<"P">>}) |-> w]
    /\ overlap = 1
    /\ raised = "none"
    /\ last = Last("load", 0, 0, <<>>, 0)
    /\ pre = CurG
    /\ ops = 0
    /\ NoBridging

----------------------------------------------------------------------------
(* The operations on the graph.                                            *)

Live == Signed(DOMAIN segments)

AddLink(start, end) ==
    /\ Idle
    /\ \E L \in {add_link(Links(forward_links, reverse_links), start, end)} :
           /\ forward_links' = L.f
           /\ reverse_links' = L.r
    /\ Done("add_link", start, end, <<>>, 0, "none")
    /\ UNCHANGED <<segments, seg_order, copy_depths, paths, overlap, bridging_vars>>

RemoveLink(start, end) ==
    /\ Idle
    /\ \E res \in {remove_link(Links(forward_links, reverse_links), start, end)} :
           /\ forward_links' = res.f
           /\ reverse_links' = res.r
           /\ Done("remove_link", start, end, <<>>, 0, res.exc)
    /\ UNCHANGED <<segments, seg_order, copy_depths, paths, overlap, bridging_vars>>

RemoveSegments(nums_to_remove) ==
    /\ Idle
    /\ \E G \in {remove_segments(CurG, nums_to_remove)} : SetG(G)
    /\ Done("remove_segments", 0, 0, SortedSeq(nums_to_remove), 0, "none")
    /\ UNCHANGED <<overlap, bridging_vars>>

\* merge_simple_path on the simple path merge_all_possible finds from segment num
MergeSimplePath(num) ==
    /\ Idle
    /\ \E sp \in {get_simple_path(CurG, num)} :
           /\ sp.exc = "none"
           /\ Len(sp.path) > 1
           /\ get_next_available_seg_number(segments) <= MaxSeg
           /\ \E res \in {merge_simple_path(CurG, overlap, sp.path)} :
                  /\ SetG(res.G)
                  /\ Done("merge_simple_path", 0, 0, sp.path, res.new, res.exc)
    /\ UNCHANGED <<overlap, bridging_vars>>

\* one pass of the while loop of repair_multi_way_junctions; the call goes
\* on (pc = "repair") until a pass finds no junction
RepairJunction ==
    /\ raised = "none"
    /\ \/ pc = "idle" /\ ops < MaxOps
       \/ pc = "repair"
    /\ get_next_available_seg_number(segments) <= MaxSeg
    /\ \E G \in {CurG} :
           /\ has_junction(G)
           /\ \E seg_num \in {first_junction(G)} :
              \E starts \in {junction_starts(G, seg_num)}, ends \in {junction_ends(G, seg_num)} :
              \E starting_segs \in Perms(starts), ending_segs \in Perms(ends) :
              \E new \in {0, get_next_available_seg_number(G.segments)} :
                  /\ last' = Last("repair_junction", seg_num, 0, <<starting_segs, ending_segs>>,
                                  new)
                  /\ \E res \in {repair_junction(G, overlap, starting_segs, ending_segs)} :
                         /\ res.new = new
                         /\ raised' = res.exc
                         /\ SetG(res.G)
                         /\ pc' = IF res.exc = "none" /\ has_junction(res.G)
                                  THEN "repair" ELSE "idle"
                  /\ ops' = IF pc = "idle" THEN ops + 1 ELSE ops
                  /\ pre' = G
    /\ UNCHANGED <<overlap, sorted_bridges, bridge_i, min_bridge_qual, right_bridged,
                   left_bridged, seg_nums_used_in_bridges, single_copy_nums, applied,
                   removed_segments,
                   working_paths, final_paths>>

RenumberSegments ==
    /\ Idle
    /\ \E res \in {renumber_segments(CurG)} :
           /\ SetG(res.G)
           /\ Done("renumber_segments", 0, 0, <<>>, 0, res.exc)
    /\ UNCHANGED <<overlap, bridging_vars>>

\* a bridge joins two different single-copy segments, on either strand
BridgeEnds ==
    Signed({n \in DOMAIN segments : n \in DOMAIN copy_depths /\ Len(copy_depths[n]) = 1})

\* depths a bridge can carry
BridgeDepths == {4}

\* interior paths of a bridge from start to end: a chain of links from a
\* successor of start to a predecessor of end, or no interior at all
GraphPaths(f, start, end) ==
    LET step(W) == {Append(w, n) : w \in W, n \in Range(Get(f, start)) \cup
                                                 UNION {Range(Get(f, k)) : k \in DOMAIN f}}
        chains(W) == {w \in W : /\ In(w[1], Get(f, start))
                                /\ \A i \in 1..(Len(w) - 1) : In(w[i+1], Get(f, w[i]))}
        one == chains(step({<<>>}))
        two == IF MaxGraphPath >= 2 THEN chains(step(one)) ELSE {}
    IN  {<<>>} \cup {w \in one \cup two : In(end, Get(f, w[Len(w)]))}

\* bridge_sequence of a bridge: the sequence of its interior path, or when
\* there is none a sequence of just the overlap
bridge_sequence(G, ov, graph_path) ==
    IF graph_path = <<>> THEN <<"S">> ELSE get_path_sequence(G, ov, graph_path).seq

Bridge(start, end, graph_path, sequence, depth, quality, kind) ==
    [start_segment |-> start, end_segment |-> end, graph_path |-> graph_path,
     bridge_sequence |-> sequence, depth |-> depth, quality |-> quality, kind |-> kind]

ApplyBridge(start, end, graph_path, depth) ==
    /\ Idle
    /\ get_next_available_seg_number(segments) <= MaxSeg
    /\ \E bridge \in {Bridge(start, end, graph_path, bridge_sequence(CurG, overlap, graph_path),
                               depth, 100, "LongReadBridge")} :
       \E res \in {apply_bridge(CurG, bridge, start, end, bridge.bridge_sequence, graph_path)} :
           /\ SetG(res.G)
           /\ Done("apply_bridge", start, end, graph_path, res.new, res.exc)
    /\ UNCHANGED <<overlap, bridging_vars>>

Next ==
    \/ Idle /\ \E link \in Range(InitLinkPool) : AddLink(link[1], link[2])
    \/ Idle /\ \E start \in DOMAIN forward_links : \E end \in Range(forward_links[start]) :
                  RemoveLink(start, end)
    \/ Idle /\ \E nums \in SUBSET (DOMAIN segments) :
                  nums # {} /\ Cardinality(nums) <= MaxRemove /\ RemoveSegments(nums)
    \/ Idle /\ \E num \in DOMAIN segments : MergeSimplePath(num)
    \/ RepairJunction
    \/ Idle /\ RenumberSegments
    \/ Idle /\ \E start \in BridgeEnds : \E end \in BridgeEnds \ {start, -start} :
                  \E graph_path \in GraphPaths(forward_links, start, end) :
                     \E depth \in BridgeDepths : ApplyBridge(start, end, graph_path, depth)

Spec == Init /\ [][Next]_vars

----------------------------------------------------------------------------
(* Properties of the graph surgery, stated over the graph before the last  *)
(* call (pre), the call (last) and the graph it left.                      *)

\* the operation last called has returned without an exception
Returned == raised = "none" /\ pc = "idle"

\* b in d[a]
has_link(d, a, b) == a \in DOMAIN d /\ In(b, d[a])

\* every signed number a link table of the model can mention
Ids == Signed(1..MaxSeg)

\* C1: after any sequence of the link and segment operations, b occurs in
\* forward_links[a] if and only if -a occurs in forward_links[-b], and each
\* occurs at most once
C1_StrandSymmetry ==
    Returned =>
        \A a, b \in Ids :
            /\ has_link(forward_links, a, b) <=> has_link(forward_links, -b, -a)
            /\ Count(b, Get(forward_links, a)) <= 1

\* C2: after add_link, remove_link, remove_segments, merge_simple_path,
\* repair_multi_way_junctions and apply_bridge, b is in forward_links[a] if
\* and only if a is in reverse_links[b]
C2_MirrorMaps ==
    Returned /\ last.op # "renumber_segments" =>
        \A a, b \in Ids : has_link(forward_links, a, b) <=> has_link(reverse_links, b, a)

\* every id of the path is a live segment and consecutive ids are linked
valid_path(G, path) ==
    /\ \A i \in 1..Len(path) : Abs(path[i]) \in DOMAIN G.segments
    /\ \A i \in 1..(Len(path) - 1) : has_link(G.f, path[i], path[i+1])

\* C3: starting from valid paths, after remove_segments, merge_simple_path,
\* repair_multi_way_junctions, renumber_segments or apply_bridge every path
\* references only live segments and its consecutive ids are linked
C3_PathValidity ==
    /\ Returned
    /\ last.op \in {"remove_segments", "merge_simple_path", "repair_junction",
                    "renumber_segments", "apply_bridge"}
    /\ \A name \in DOMAIN pre.paths : valid_path(pre, pre.paths[name])
    => \A name \in DOMAIN paths : valid_path(CurG, paths[name])

\* C4: when apply_bridge(start, end) returns with new segment N,
\* forward_links[start] = [N], reverse_links[end] = [N],
\* forward_links[N] = [end] and reverse_links[N] = [start]
C4_BridgeReplacesLinks ==
    Returned /\ last.op = "apply_bridge" =>
        /\ Get(forward_links, last.a) = <<last.ret>>
        /\ Get(reverse_links, last.b) = <<last.ret>>
        /\ Get(forward_links, last.ret) = <<last.b>>
        /\ Get(reverse_links, last.ret) = <<last.a>>

\* C7: a rewritten pair (S, E) is a complete junction, every s in S with
\* successors exactly E and every e in E with predecessors exactly S, so a
\* connection s -> X -> e through the new segment X exists only where s -> e
\* was a link before
C7_OnlyCompleteJunctions ==
    raised = "none" /\ last.op = "repair_junction" =>
        LET S == Range(last.path[1])
            E == Range(last.path[2])
            X == last.ret
        IN  /\ \A s \in S : Range(Get(pre.f, s)) = E
            /\ \A e \in E : Range(Get(pre.r, e)) = S
            /\ \A s, e \in Ids :
                   has_link(forward_links, s, X) /\ has_link(forward_links, X, e)
                   => has_link(pre.f, s, e)

\* path holds s immediately followed by e
steps_through(path, s, e) == \E i \in 1..(Len(path) - 1) : path[i] = s /\ path[i+1] = e

\* C8: repairing (S, E) creates exactly one segment X, with the shared
\* overlap sequence and depth (sum of S + sum of E) / 2; every s has X as
\* its only successor, every e has X as its only predecessor, X has
\* successors exactly E and predecessors exactly S, no link from S to E
\* remains, and a path that held s, e now holds s, X, e
C8_JunctionRewrite ==
    raised = "none" /\ last.op = "repair_junction" =>
        LET S == Range(last.path[1])
            E == Range(last.path[2])
            X == last.ret
            depth_sum(T) == SumOver(T, [x \in T |-> pre.segments[Abs(x)].depth])
        IN  /\ DOMAIN segments = DOMAIN pre.segments \cup {X}
            /\ X \notin DOMAIN pre.segments
            /\ \A e \in E : segments[X].forward_sequence
                               = Prefix(get_seq_from_signed_seg_num(pre.segments, e), overlap)
            /\ \A s \in S : segments[X].forward_sequence
                               = LastK(get_seq_from_signed_seg_num(pre.segments, s), overlap)
            /\ 2 * segments[X].depth = depth_sum(S) + depth_sum(E)
            /\ \A s \in S : Get(forward_links, s) = <<X>>
            /\ \A e \in E : Get(reverse_links, e) = <<X>>
            /\ Range(Get(forward_links, X)) = E
            /\ Range(Get(reverse_links, X)) = S
            /\ \A s \in S, e \in E : ~has_link(forward_links, s, e)
            /\ \A name \in DOMAIN pre.paths : \A s \in S, e \in E :
                   steps_through(pre.paths[name], s, e)
                   => /\ name \in DOMAIN paths
                      /\ \E i \in 1..(Len(paths[name]) - 2) :
                             SubSeq(paths[name], i, i + 2) = <<s, X, e>>

\* C9: merge_simple_path(P), P = [s1..sk], removes the k segments and adds
\* one segment N = max + 1; predecessors of s1 outside P become
\* predecessors of N, successors of sk outside P become successors of N, a
\* closing link sk -> s1 becomes N -> N, a hairpin sk -> -sk becomes
\* N -> -N, and no other link between surviving segments changes
C9_MergeRewiring ==
    Returned /\ last.op = "merge_simple_path" =>
        LET P == last.path
            N == last.ret
            s1 == P[1]
            sk == P[Len(P)]
            gone == Range(AbsSeq(P))
            kept == Signed(DOMAIN pre.segments \ gone)
        IN  /\ N = SetMax(DOMAIN pre.segments) + 1
            /\ DOMAIN segments = (DOMAIN pre.segments \ gone) \cup {N}
            /\ \A x, y \in kept : has_link(forward_links, x, y) <=> has_link(pre.f, x, y)
            /\ \A x \in kept : has_link(forward_links, x, N) <=> has_link(pre.f, x, s1)
            /\ \A y \in kept : has_link(forward_links, N, y) <=> has_link(pre.f, sk, y)
            /\ has_link(forward_links, N, N) <=> has_link(pre.f, sk, s1)
            /\ has_link(forward_links, N, -N) <=> has_link(pre.f, sk, -sk)
            /\ \A x \in Ids : \A g \in Signed(gone) :
                   ~has_link(forward_links, x, g) /\ ~has_link(forward_links, g, x)

----------------
(* A caller that repairs the junctions and then merges the simple paths,   *)
(* the order in which clean() calls the two.                               *)

\* merge_simple_path on a simple path of the graph the repair has left
MergeAfterRepair(num) ==
    /\ raised = "none"
    /\ pc = "idle"
    /\ last.op = "repair_junction"
    /\ \E sp \in {get_simple_path(CurG, num)} :
           /\ sp.exc = "none"
           /\ Len(sp.path) > 1
           /\ get_next_available_seg_number(segments) <= MaxSeg
           /\ \E res \in {merge_simple_path(CurG, overlap, sp.path)} :
                  /\ SetG(res.G)
                  /\ Done("merge_simple_path", 0, 0, sp.path, res.new, res.exc)
    /\ UNCHANGED <<overlap, bridging_vars>>

NextRepairMerge ==
    \/ RepairJunction
    \/ \E num \in DOMAIN segments : MergeAfterRepair(num)

SpecRepairMerge == Init /\ [][NextRepairMerge]_vars

----------------------------------------------------------------------------
(* The path registry under merge_simple_path. The P lines of a GFA file    *)
(* and the lines of a SPAdes paths file are stored as read, so a loaded    *)
(* path is any list of two or more signed numbers.                         *)

\* the loaded links: 1 -> 2 is the only simple path, entered from 3 and left to 4
MergeLinkLines == <<<<3, 1>>, <<1, 2>>, <<2, 4>>, <<3, 4>>>>

\* the signed numbers a loaded path is made of
MergePathIds == {1, 2, -1, -2, 3, 4}

RECURSIVE ListsOfLen(_, _)
ListsOfLen(S, n) ==
    IF n = 0 THEN {<<>>} ELSE {Append(l, x) : l \in ListsOfLen(S, n - 1), x \in S}

InitMergePaths ==
    /\ forward_links = loaded_forward_links(MergeLinkLines)
    /\ reverse_links = build_reverse_links(forward_links, loaded_key_order(MergeLinkLines))
    /\ segments = [n \in 1..Len(InitSegments) |-> InitSegments[n]]
    /\ seg_order = [n \in 1..Len(InitSegments) |-> n]
    /\ copy_depths = InitCopyDepths
    /\ \E n \in 2..MaxMergePathLen : \E w \in ListsOfLen(MergePathIds, n) :
          paths = [name \in {<<"P">>} |-> w]
    /\ overlap = 1
    /\ raised = "none"
    /\ last = Last("load", 0, 0, <<>>, 0)
    /\ pre = CurG
    /\ ops = 0
    /\ NoBridging

NextMergePaths == Idle /\ \E num \in DOMAIN segments : MergeSimplePath(num)

SpecMergePaths == InitMergePaths /\ [][NextMergePaths]_vars

\* path with every occurrence of pattern, read left to right, replaced by val
RECURSIVE collapse(_, _, _)
collapse(path, pattern, val) ==
    IF path = <<>> THEN <<>>
    ELSE IF MatchAt(path, pattern, 1)
    THEN <<val>> \o collapse(SubSeq(path, Len(pattern) + 1, Len(path)), pattern, val)
    ELSE <<path[1]>> \o collapse(Tail(path), pattern, val)

\* the maximal runs of path that hold no number of bad, in order
RECURSIVE runs(_, _)
runs(path, bad) ==
    IF path = <<>> THEN <<<<>>>>
    ELSE LET rest == runs(Tail(path), bad)
         IN  IF path[1] \in bad THEN <<<<>>>> \o rest
             ELSE <<<<path[1]>> \o rest[1]>> \o Tail(rest)

\* the ids of the merged path, on either strand
merged_ids == Signed(Range(AbsSeq(last.path)))

\* a path of the old registry with the merged path and its reverse complement replaced
rewritten(path) ==
    collapse(collapse(path, last.path, last.ret), NegSeq(Reversed(last.path)), -last.ret)

\* its runs of two or more numbers between the ids of the merged path
fragments(path) == SelectSeq(runs(rewritten(path), merged_ids), LAMBDA x : Len(x) >= 2)

still_references(path) == \E i \in 1..Len(rewritten(path)) : rewritten(path)[i] \in merged_ids

\* no path holds an id of the merged path, none is shorter than 2, and a
\* path that needs no split is kept whole under its name, or dropped when
\* the replacement leaves fewer than 2 numbers
merge_paths_common ==
    /\ \A name \in DOMAIN paths :
           /\ Len(paths[name]) >= 2
           /\ \A i \in 1..Len(paths[name]) : paths[name][i] \notin merged_ids
    /\ \A name \in DOMAIN pre.paths :
           ~still_references(pre.paths[name]) =>
               IF Len(rewritten(pre.paths[name])) >= 2
               THEN name \in DOMAIN paths /\ paths[name] = rewritten(pre.paths[name])
               ELSE name \notin DOMAIN paths
    /\ \A name \in DOMAIN paths :
           \/ name \in DOMAIN pre.paths
           \/ \E old \in DOMAIN pre.paths : \E i \in 1..Len(fragments(pre.paths[old])) :
                  name = PieceName(old, i)

\* the fragments of path name are stored as name_1, name_2, ... and name itself is gone
named_by_number(name) ==
    /\ name \notin DOMAIN paths
    /\ \A i \in 1..Len(fragments(pre.paths[name])) :
           /\ PieceName(name, i) \in DOMAIN paths
           /\ paths[PieceName(name, i)] = fragments(pre.paths[name])[i]
    /\ PieceName(name, Len(fragments(pre.paths[name])) + 1) \notin DOMAIN paths

\* C10: after merge_simple_path(P) with new id N every path has P replaced
\* by [N] and the reverse complement of P by [-N]; no path holds an id of
\* P; a path that still referenced ids of P is split at them into fragments
\* named <name>_1, <name>_2, ..., fragments shorter than 2 dropped
C10_MergePaths ==
    Returned /\ last.op = "merge_simple_path" =>
        /\ merge_paths_common
        /\ \A name \in DOMAIN pre.paths :
               still_references(pre.paths[name]) => named_by_number(name)

\* C10, amended: as above, except that a path split into exactly one
\* surviving fragment keeps its name; only two or more fragments are named
\* <name>_1, <name>_2, ...
C10_MergePathsAmended ==
    Returned /\ last.op = "merge_simple_path" =>
        /\ merge_paths_common
        /\ \A name \in DOMAIN pre.paths :
               still_references(pre.paths[name]) =>
                   IF Len(fragments(pre.paths[name])) = 1
                   THEN /\ name \in DOMAIN paths
                        /\ paths[name] = fragments(pre.paths[name])[1]
                        /\ PieceName(name, 1) \notin DOMAIN paths
                   ELSE named_by_number(name)

\* a merge that cut a path down to a single fragment, kept under its name
C10_Witness ==
    /\ Returned
    /\ last.op = "merge_simple_path"
    /\ \E name \in DOMAIN pre.paths :
           /\ still_references(pre.paths[name])
           /\ Len(fragments(pre.paths[name])) = 1
           /\ name \in DOMAIN paths

----------------------------------------------------------------------------
(* The bridging pass: apply_bridges.                                       *)

\* the bridges in the order they were handed in
unsorted_bridges(bridges) == bridges

\* sorted(bridges, key=quality, reverse=True): a stable sort, so bridges of
\* equal quality keep the order they were handed in
RECURSIVE sorted_by_quality(_)
sorted_by_quality(bridges) ==
    IF bridges = <<>> THEN <<>>
    ELSE LET best == SetMax({bridges[i].quality : i \in 1..Len(bridges)})
             first == CHOOSE i \in 1..Len(bridges) :
                          /\ bridges[i].quality = best
                          /\ \A j \in 1..(i-1) : bridges[j].quality # best
         IN  <<bridges[first]>> \o
             sorted_by_quality(SubSeq(bridges, 1, first - 1) \o
                               SubSeq(bridges, first + 1, Len(bridges)))

\* [start] + graph_path + [end] cut at its single-copy segments, each piece
\* running from one of them to the next
RECURSIVE cut_at_single_copy(_, _, _)
cut_at_single_copy(piece, rest, single) ==
    IF rest = <<>> THEN (IF Len(piece) > 1 THEN <<piece>> ELSE <<>>)
    ELSE IF Abs(rest[1]) \in single /\ Len(rest) > 1
    THEN <<Append(piece, rest[1])>> \o cut_at_single_copy(<<rest[1]>>, Tail(rest), single)
    ELSE cut_at_single_copy(Append(piece, rest[1]), Tail(rest), single)

\* the helper of the bridge module: the pieces of the bridge whose start is
\* not yet bridged on its outgoing side, whose end is not yet bridged on its
\* incoming side, and whose two ends were not consumed by an earlier bridge
get_applicable_bridge_pieces(bridge, single, right, left, used) ==
    LET full == <<bridge.start_segment>> \o bridge.graph_path \o <<bridge.end_segment>>
        start_free(n) == IF n > 0 THEN n \notin right ELSE -n \notin left
        end_free(n) == IF n > 0 THEN n \notin left ELSE -n \notin right
        usable(piece) == /\ start_free(piece[1])
                         /\ end_free(piece[Len(piece)])
                         /\ ~In(Abs(piece[1]), used)
                         /\ ~In(Abs(piece[Len(piece)]), used)
    IN  SelectSeq(cut_at_single_copy(<<full[1]>>, Tail(full), single), usable)

add_to_bridged_sets(start, end, right, left) ==
    [right |-> (IF start > 0 THEN right \cup {start} ELSE right) \cup
               (IF end > 0 THEN {} ELSE {-end}),
     left |-> (IF start > 0 THEN left ELSE left \cup {-start}) \cup
              (IF end > 0 THEN {end} ELSE {})]

\* the graph and the bookkeeping of apply_bridges between two of its steps
Bridging(G, right, left, used, single, log, exc) ==
    [G |-> G, right |-> right, left |-> left, used |-> used, single |-> single,
     applied |-> log, exc |-> exc]

CurBridging ==
    Bridging(CurG, right_bridged, left_bridged, seg_nums_used_in_bridges, single_copy_nums,
             applied, "none")

\* one invocation of apply_bridge and the bookkeeping that follows it in
\* apply_entire_bridge and in the loop of apply_bridge_in_pieces
apply_and_record(st, bridge, start, end, sequence, middle) ==
    Bind(apply_bridge(st.G, bridge, start, end, sequence, middle), LAMBDA res :
    Bind(Append(st.applied, [quality |-> bridge.quality, start |-> start, end |-> end,
                             new |-> res.new]), LAMBDA log :
        IF res.exc # "none" THEN [st EXCEPT !.G = res.G, !.applied = log, !.exc = res.exc]
        ELSE Bind(add_to_bridged_sets(start, end, st.right, st.left), LAMBDA sets :
             Bridging(res.G, sets.right, sets.left, st.used \o AbsSeq(middle),
                      st.single \ Range(AbsSeq(middle)), log, "none"))))

apply_entire_bridge(st, bridge) ==
    apply_and_record(st, bridge, bridge.start_segment, bridge.end_segment,
                     bridge.bridge_sequence, bridge.graph_path)

RECURSIVE apply_bridge_in_pieces(_, _, _, _)
apply_bridge_in_pieces(st, ov, bridge, pieces) ==
    IF pieces = <<>> THEN st
    ELSE Bind(pieces[1], LAMBDA piece :
         Bind(SubSeq(piece, 2, Len(piece) - 1), LAMBDA piece_middle :
         Bind(get_path_sequence(st.G, ov, piece_middle), LAMBDA piece_seq :
             IF piece_seq.exc # "none" THEN [st EXCEPT !.exc = piece_seq.exc]
             ELSE Bind(apply_and_record(st, bridge, piece[1], piece[Len(piece)],
                                        piece_seq.seq, piece_middle), LAMBDA st1 :
                  IF st1.exc # "none" THEN st1
                  ELSE apply_bridge_in_pieces(st1, ov, bridge, Tail(pieces))))))

\* how many of the listed neighbours have exactly one link in d; the lookup
\* d[n] raises KeyError for a neighbour that is no key of d
single_link_count(d, neighbours) ==
    IF \E i \in 1..Len(neighbours) : neighbours[i] \notin DOMAIN d
    THEN [val |-> 0, exc |-> "KeyError"]
    ELSE [val |-> Cardinality({i \in 1..Len(neighbours) : Len(d[neighbours[i]]) = 1}),
          exc |-> "none"]

dead_end_change_if_deleted(G, seg_num) ==
    Bind(single_link_count(G.r, Get(G.f, seg_num)), LAMBDA down :
    Bind(single_link_count(G.f, Get(G.r, seg_num)), LAMBDA up :
        IF down.exc # "none" THEN down
        ELSE IF up.exc # "none" THEN up
        ELSE [val |-> down.val + up.val - dead_end_count(G, seg_num), exc |-> "none"]))

\* end is the second segment of the path, and the two comparisons of a list
\* with 0 are never true, so no dead end of the path itself is counted
dead_end_change_if_path_deleted(G, path_segments) ==
    Bind(single_link_count(G.r, Get(G.f, path_segments[2])), LAMBDA down :
    Bind(single_link_count(G.f, Get(G.r, path_segments[1])), LAMBDA up :
        IF down.exc # "none" THEN down
        ELSE IF up.exc # "none" THEN up
        ELSE [val |-> down.val + up.val - 0, exc |-> "none"]))

Deletion(kind, nums, exc) == [kind |-> kind, nums |-> nums, exc |-> exc]

\* one run of the for loop of the cleanup pass from the i-th used segment:
\* the deletion the loop breaks on, or "none" when it runs to its end
RECURSIVE cleanup_scan(_, _, _)
cleanup_scan(G, used, i) ==
    IF i > Len(used) THEN Deletion("none", <<>>, "none")
    ELSE Bind(used[i], LAMBDA seg_num :
        IF seg_num \notin DOMAIN G.segments THEN cleanup_scan(G, used, i + 1)
        ELSE IF dead_end_count(G, seg_num) > 0 THEN Deletion("dead_end", <<seg_num>>, "none")
        ELSE Bind(dead_end_change_if_deleted(G, seg_num), LAMBDA change :
            IF change.exc # "none" THEN Deletion("none", <<>>, change.exc)
            ELSE IF change.val <= 0 THEN Deletion("segment", <<seg_num>>, "none")
            ELSE Bind(get_simple_path(G, seg_num), LAMBDA sp :
                IF sp.exc # "none" THEN Deletion("none", <<>>, sp.exc)
                ELSE IF Len(sp.path) > 1 /\ \A x \in Range(AbsSeq(sp.path)) : In(x, used)
                THEN Bind(dead_end_change_if_path_deleted(G, sp.path), LAMBDA path_change :
                         IF path_change.exc # "none" THEN Deletion("none", <<>>, path_change.exc)
                         ELSE IF path_change.val <= 0
                         THEN Deletion("path", AbsSeq(sp.path), "none")
                         ELSE cleanup_scan(G, used, i + 1))
                ELSE cleanup_scan(G, used, i + 1))))

\* positive numbers of the segments linked to segment_num
get_connected_segments(G, segment_num) ==
    {Abs(n) : n \in Range(Get(G.f, segment_num)) \cup Range(Get(G.r, segment_num))}

RECURSIVE component_of(_, _)
component_of(G, visited) ==
    LET more == UNION {get_connected_segments(G, w) : w \in visited}
    IN  IF more \subseteq visited THEN visited ELSE component_of(G, visited \cup more)

\* the components as sets of segment numbers
get_connected_components(G) == {component_of(G, {v}) : v \in DOMAIN G.segments}

\* the segments of the components every segment of which is a used one
used_up_components(G, used) ==
    UNION {component \in get_connected_components(G) : \A n \in component : In(n, used)}

----------------
(* apply_bridges as a process: the call, one step per bridge of the sorted *)
(* list, one step per deletion of the cleanup loop, and the removal of the *)
(* used-up components that ends the call.                                  *)

\* the L lines a loaded file may hold where bridges are applied
BridgeLinkPool ==
    <<<<1, 3>>, <<3, 2>>, <<3, 4>>, <<4, 3>>, <<3, -4>>, <<-3, 4>>, <<4, 2>>>>

ChosenBridgeLines(chosen) ==
    LET idx == SortedSeq(chosen) IN [i \in 1..Len(idx) |-> BridgeLinkPool[idx[i]]]

\* bridge qualities, in hundredths, and the threshold they are held against
BridgeQualities == {40, 60, 80}

MinBridgeQuals == {50}

\* the single-copy segment sets apply_bridges may be handed
SingleCopySets == {{1, 2}, {1, 2, 4}}

InitBridges ==
    /\ \E chosen \in SUBSET (1..Len(BridgeLinkPool)) :
          /\ Cardinality(chosen) <= MaxInitLinks
          /\ forward_links = loaded_forward_links(ChosenBridgeLines(chosen))
          /\ reverse_links = build_reverse_links(forward_links,
                                                 loaded_key_order(ChosenBridgeLines(chosen)))
    /\ segments = [n \in 1..Len(InitSegments) |-> InitSegments[n]]
    /\ seg_order = [n \in 1..Len(InitSegments) |-> n]
    /\ copy_depths = InitCopyDepths
    /\ paths = [name \in {} |-> <<>>]
    /\ overlap = 1
    /\ raised = "none"
    /\ last = Last("load", 0, 0, <<>>, 0)
    /\ pre = CurG
    /\ ops = 0
    /\ NoBridging

\* the bridges that can be built between two single-copy segments of the graph
BridgesBetween(start, end) ==
    {Bridge(start, end, graph_path, bridge_sequence(CurG, overlap, graph_path), depth, quality,
            "LongReadBridge") :
        graph_path \in GraphPaths(forward_links, start, end),
        depth \in BridgeDepths, quality \in BridgeQualities}

CandidateBridges(single) ==
    UNION {BridgesBetween(pair[1], pair[2]) : pair \in {p \in single \X single : p[1] # p[2]}}

StartBridges(bridges, qual, single) ==
    /\ Idle
    /\ sorted_bridges' = sorted_by_quality(bridges)
    /\ bridge_i' = 1
    /\ min_bridge_qual' = qual
    /\ right_bridged' = {}
    /\ left_bridged' = {}
    /\ seg_nums_used_in_bridges' = <<>>
    /\ single_copy_nums' = single
    /\ applied' = <<>>
    /\ removed_segments' = <<>>
    /\ UNCHANGED <<working_paths, final_paths>>
    /\ pc' = "bridging"
    /\ last' = Last("apply_bridges", 0, 0, <<>>, 0)
    /\ pre' = CurG
    /\ ops' = ops + 1
    /\ UNCHANGED <<graph_vars, raised>>

\* the loop of apply_bridges is at its bridge_i-th bridge
AtBridge == raised = "none" /\ pc = "bridging" /\ bridge_i <= Len(sorted_bridges)

CurPieces ==
    get_applicable_bridge_pieces(sorted_bridges[bridge_i], single_copy_nums, right_bridged,
                                 left_bridged, seg_nums_used_in_bridges)

EntirePath(bridge) == <<bridge.start_segment>> \o bridge.graph_path \o <<bridge.end_segment>>

\* the bookkeeping of one pass of the loop over the sorted bridges
BridgeDone(op, exc) ==
    /\ last' = Last(op, bridge_i, 0,
                    <<right_bridged, left_bridged, seg_nums_used_in_bridges>>, 0)
    /\ pre' = CurG
    /\ raised' = exc
    /\ bridge_i' = bridge_i + 1
    /\ pc' = IF bridge_i = Len(sorted_bridges) THEN "cleanup" ELSE "bridging"
    /\ UNCHANGED <<overlap, ops, sorted_bridges, min_bridge_qual, removed_segments,
                   working_paths, final_paths>>

SetBridging(st) ==
    /\ SetG(st.G)
    /\ right_bridged' = st.right
    /\ left_bridged' = st.left
    /\ seg_nums_used_in_bridges' = Dedup(st.used)
    /\ single_copy_nums' = st.single
    /\ applied' = st.applied

\* no piece of the bridge can be applied
BridgeUnused ==
    /\ AtBridge
    /\ CurPieces = <<>>
    /\ BridgeDone("unused", "none")
    /\ UNCHANGED <<graph_vars, right_bridged, left_bridged, seg_nums_used_in_bridges,
                   single_copy_nums, applied>>

\* the bridge has pieces to apply and its quality is too low
BridgeRejected ==
    /\ AtBridge
    /\ CurPieces # <<>>
    /\ sorted_bridges[bridge_i].quality < min_bridge_qual
    /\ BridgeDone("rejected", "none")
    /\ UNCHANGED <<graph_vars, right_bridged, left_bridged, seg_nums_used_in_bridges,
                   single_copy_nums, applied>>

ApplyEntireBridge ==
    /\ AtBridge
    /\ \E bridge \in {sorted_bridges[bridge_i]} : \E pieces \in {CurPieces} :
           /\ pieces # <<>>
           /\ bridge.quality >= min_bridge_qual
           /\ Len(pieces) = 1 /\ pieces[1] = EntirePath(bridge)
           /\ get_next_available_seg_number(segments) <= MaxSeg
           /\ \E st \in {apply_entire_bridge(CurBridging, bridge)} :
                  /\ SetBridging(st)
                  /\ BridgeDone("apply_entire_bridge", st.exc)

ApplyBridgeInPieces ==
    /\ AtBridge
    /\ \E bridge \in {sorted_bridges[bridge_i]} : \E pieces \in {CurPieces} :
           /\ pieces # <<>>
           /\ bridge.quality >= min_bridge_qual
           /\ ~(Len(pieces) = 1 /\ pieces[1] = EntirePath(bridge))
           /\ get_next_available_seg_number(segments) + Len(pieces) - 1 <= MaxSeg
           /\ \E st \in {apply_bridge_in_pieces(CurBridging, overlap, bridge, pieces)} :
                  /\ SetBridging(st)
                  /\ BridgeDone("apply_bridge_in_pieces", st.exc)

\* one pass of the while loop of the cleanup that deletes something
CleanupDelete ==
    /\ raised = "none"
    /\ pc = "cleanup"
    /\ \E found \in {cleanup_scan(CurG, seg_nums_used_in_bridges, 1)} :
           /\ found.kind # "none" \/ found.exc # "none"
           /\ \E G \in {IF found.exc = "none" THEN remove_segments(CurG, Range(found.nums))
                        ELSE CurG} : SetG(G)
           /\ removed_segments' = removed_segments \o found.nums
           /\ UNCHANGED <<working_paths, final_paths>>
           /\ last' = Last("cleanup_delete", 0, 0, found.nums, found.kind)
           /\ pre' = CurG
           /\ raised' = found.exc
    /\ UNCHANGED <<overlap, ops, pc, sorted_bridges, bridge_i, min_bridge_qual, right_bridged,
                   left_bridged, seg_nums_used_in_bridges, single_copy_nums, applied>>

\* the pass of the while loop that deletes nothing, and the rest of the call
CleanupComponents ==
    /\ raised = "none"
    /\ pc = "cleanup"
    /\ \E found \in {cleanup_scan(CurG, seg_nums_used_in_bridges, 1)} :
           found.kind = "none" /\ found.exc = "none"
    /\ \E segment_nums_to_remove \in {used_up_components(CurG, seg_nums_used_in_bridges)} :
           /\ \E G \in {remove_segments(CurG, segment_nums_to_remove)} : SetG(G)
           /\ removed_segments' = removed_segments \o SortedSeq(segment_nums_to_remove)
           /\ UNCHANGED <<working_paths, final_paths>>
           /\ last' = Last("cleanup_components", 0, 0, SortedSeq(segment_nums_to_remove), 0)
    /\ pre' = CurG
    /\ pc' = "idle"
    /\ UNCHANGED <<overlap, ops, raised, sorted_bridges, bridge_i, min_bridge_qual, right_bridged,
                   left_bridged, seg_nums_used_in_bridges, single_copy_nums, applied>>

NextBridges ==
    \/ Idle /\ \E single \in SingleCopySets : \E qual \in MinBridgeQuals :
                  \E first \in CandidateBridges(single) :
                     \/ StartBridges(<<first>>, qual, single)
                     \/ MaxBridges >= 2 /\ \E second \in CandidateBridges(single) :
                                              StartBridges(<<first, second>>, qual, single)
    \/ BridgeUnused
    \/ BridgeRejected
    \/ ApplyEntireBridge
    \/ ApplyBridgeInPieces
    \/ CleanupDelete
    \/ CleanupComponents

SpecBridges == InitBridges /\ [][NextBridges]_vars

\* C5: the bridges apply_bridge was invoked for come in non-increasing
\* quality, none of them is below min_bridge_qual, and a bridge rejected for
\* its quality leaves the segments, the links, the depths, right_bridged,
\* left_bridged and the list of used segments as they were
C5_BridgeOrder ==
    /\ \A i \in 1..(Len(applied) - 1) : applied[i].quality >= applied[i+1].quality
    /\ \A i \in 1..Len(applied) : applied[i].quality >= min_bridge_qual
    /\ last.op = "rejected" =>
           /\ segments = pre.segments
           /\ forward_links = pre.f
           /\ reverse_links = pre.r
           /\ copy_depths = pre.copy_depths
           /\ <<right_bridged, left_bridged, seg_nums_used_in_bridges>> = last.path

\* a bridge was applied and the next one in the sorted list, which still had
\* pieces to apply, was rejected for its quality
C5_Witness ==
    /\ last.op = "rejected"
    /\ Len(applied) >= 1
    /\ sorted_bridges[bridge_i - 1].quality < min_bridge_qual

\* C6: every deletion of the cleanup pass leaves total_dead_end_count() no
\* larger than it was just before the deletion
C6_CleanupDeadEnds ==
    (raised = "none" /\ last.op = "cleanup_delete") =>
        total_dead_end_count(CurG) <= total_dead_end_count(pre)

----------------------------------------------------------------------------
(* merge_simple_path called on a path of one segment.                      *)

\* merge_simple_path([s]) for a live segment s on either strand
MergeSingle(s) ==
    /\ Idle
    /\ get_next_available_seg_number(segments) <= MaxSeg
    /\ \E res \in {merge_simple_path(CurG, overlap, <<s>>)} :
           /\ SetG(res.G)
           /\ Done("merge_simple_path", s, 0, <<s>>, res.new, res.exc)
    /\ UNCHANGED <<overlap, bridging_vars>>

NextMergeSingle == Idle /\ \E s \in Signed(DOMAIN segments) : MergeSingle(s)

SpecMergeSingle == Init /\ [][NextMergeSingle]_vars

\* C11: merge_simple_path([s]) leaves the segment ids, every segment's depth
\* and sequence, both adjacency maps, the copy-depth map and the path
\* registry exactly as they were
C11_MergeSingleNoOp ==
    (raised = "none" /\ last.op = "merge_simple_path" /\ Len(last.path) = 1) =>
        /\ segments = pre.segments
        /\ forward_links = pre.f
        /\ reverse_links = pre.r
        /\ copy_depths = pre.copy_depths
        /\ paths = pre.paths

----------------------------------------------------------------------------
(* merge_all_possible as a process: one step per pass of its while loop,   *)
(* and the renumbering that ends the call.                                 *)

Found(kind, path, exc) == [kind |-> kind, path |-> path, exc |-> exc]

\* a scan that looks at the smallest segment number only
merge_scan_first_only(G, seg_nums, i) ==
    IF seg_nums = <<>> THEN Found("none", <<>>, "none")
    ELSE Bind(get_simple_path(G, seg_nums[1]), LAMBDA sp :
             IF sp.exc # "none" THEN Found("none", <<>>, sp.exc)
             ELSE IF Len(sp.path) <= 1 THEN Found("none", <<>>, "none")
             ELSE Found("merge", sp.path, "none"))

\* the for loop over the sorted segment numbers from the i-th on: the
\* simple path it breaks on, or "none" when it runs to its end
RECURSIVE merge_scan(_, _, _)
merge_scan(G, seg_nums, i) ==
    IF i > Len(seg_nums) THEN Found("none", <<>>, "none")
    ELSE Bind(get_simple_path(G, seg_nums[i]), LAMBDA sp :
             IF sp.exc # "none" THEN Found("none", <<>>, sp.exc)
             ELSE IF Len(sp.path) <= 1 THEN merge_scan(G, seg_nums, i + 1)
             ELSE Found("merge", sp.path, "none"))

\* merge_all_possible can be called, or is inside its while loop
InMergeAll == raised = "none" /\ ((pc = "idle" /\ ops < MaxOps) \/ pc = "merge_all")

\* a pass of the while loop that merges a simple path, or raises
MergeAllStep ==
    /\ InMergeAll
    /\ \E G \in {CurG} : \E seg_nums \in {SortedSeq(DOMAIN segments)} :
       \E found \in {merge_scan(G, seg_nums, 1)} :
           /\ found.kind = "merge" \/ found.exc # "none"
           /\ \E res \in {IF found.exc # "none" THEN [G |-> CurG, exc |-> found.exc, new |-> 0]
                          ELSE merge_simple_path(CurG, overlap, found.path)} :
                  /\ SetG(res.G)
                  /\ last' = Last("merge_all_step", 0, 0, found.path, res.new)
                  /\ raised' = res.exc
    /\ pre' = CurG
    /\ pc' = "merge_all"
    /\ ops' = IF pc = "idle" THEN ops + 1 ELSE ops
    /\ UNCHANGED <<overlap, sorted_bridges, bridge_i, min_bridge_qual, right_bridged,
                   left_bridged, seg_nums_used_in_bridges, single_copy_nums, applied,
                   removed_segments,
                   working_paths, final_paths>>

\* the pass that finds nothing to merge, and the renumbering after the loop
MergeAllFinish ==
    /\ InMergeAll
    /\ \E G \in {CurG} : \E seg_nums \in {SortedSeq(DOMAIN segments)} :
       \E found \in {merge_scan(G, seg_nums, 1)} :
           found.kind = "none" /\ found.exc = "none"
    /\ \E res \in {renumber_segments(CurG)} :
           /\ SetG(res.G)
           /\ raised' = res.exc
    /\ last' = Last("merge_all_possible", 0, 0, <<>>, 0)
    /\ pre' = CurG
    /\ pc' = "idle"
    /\ ops' = IF pc = "idle" THEN ops + 1 ELSE ops
    /\ UNCHANGED <<overlap, sorted_bridges, bridge_i, min_bridge_qual, right_bridged,
                   left_bridged, seg_nums_used_in_bridges, single_copy_nums, applied,
                   removed_segments,
                   working_paths, final_paths>>

NextMergeAll ==
    \/ MergeAllStep
    \/ MergeAllFinish

\* the interpreter always runs the next pass of the loop
SpecMergeAll == Init /\ [][NextMergeAll]_vars /\ WF_vars(NextMergeAll)

\* merge_all_possible has returned
MergeAllReturned == raised = "none" /\ pc = "idle" /\ last.op = "merge_all_possible"

\* C12: merge_all_possible terminates, and when it has returned
\* get_simple_path(n) has length 1 for every live segment n
C12_MergeAllTerminates ==
    /\ [](MergeAllReturned =>
              \A n \in DOMAIN segments : Len(get_simple_path(CurG, n).path) = 1)
    /\ (pc = "merge_all") ~> (MergeAllReturned \/ raised # "none")

\* merge_all_possible has returned after two merges
C12_Witness ==
    /\ MergeAllReturned
    /\ Cardinality(DOMAIN segments) = 2
    /\ Cardinality(DOMAIN pre.segments \cap {5, 6}) = 2


----------------------------------------------------------------------------
(* renumber_segments on a graph whose numbers have gaps, applied twice.    *)

\* some segments are removed from the loaded graph, which leaves gaps in the numbers
RemoveBeforeRenumber(nums_to_remove) ==
    /\ raised = "none" /\ pc = "idle" /\ last.op = "load"
    /\ \E G \in {remove_segments(CurG, nums_to_remove)} : SetG(G)
    /\ Done("remove_segments", 0, 0, SortedSeq(nums_to_remove), 0, "none")
    /\ UNCHANGED <<overlap, bridging_vars>>

\* a simple path of the loaded graph is merged, which makes a long segment
\* with the largest number
MergeBeforeRenumber(num) ==
    /\ raised = "none" /\ pc = "idle" /\ last.op = "load"
    /\ \E sp \in {get_simple_path(CurG, num)} :
           /\ sp.exc = "none"
           /\ Len(sp.path) > 1
           /\ \E res \in {merge_simple_path(CurG, overlap, sp.path)} :
                  /\ SetG(res.G)
                  /\ Done("merge_simple_path", num, 0, sp.path, res.new, res.exc)
    /\ UNCHANGED <<overlap, bridging_vars>>

RenumberFirst ==
    /\ raised = "none" /\ pc = "idle"
    /\ last.op \in {"load", "remove_segments", "merge_simple_path"}
    /\ \E res \in {renumber_segments(CurG)} :
           /\ SetG(res.G)
           /\ Done("renumber_segments", 0, 0, <<>>, 0, res.exc)
    /\ UNCHANGED <<overlap, bridging_vars>>

\* the second call in a row; pre stays the graph the first call was given
RenumberAgain ==
    /\ raised = "none" /\ pc = "idle" /\ last.op = "renumber_segments"
    /\ \E res \in {renumber_segments(CurG)} :
           /\ SetG(res.G)
           /\ raised' = res.exc
    /\ last' = Last("renumber_again", 0, 0, <<>>, 0)
    /\ ops' = ops + 1
    /\ UNCHANGED <<pre, overlap, bridging_vars>>

NextRenumber ==
    \/ \E nums_to_remove \in SUBSET (DOMAIN segments) :
           /\ Cardinality(nums_to_remove) \in 1..MaxRemove
           /\ RemoveBeforeRenumber(nums_to_remove)
    \/ \E num \in DOMAIN segments : MergeBeforeRenumber(num)
    \/ RenumberFirst
    \/ RenumberAgain

SpecRenumber == Init /\ [][NextRenumber]_vars

\* the renaming m of positive numbers, extended to the negative twins
SignedImage(m, x) == IF x > 0 THEN m[x] ELSE -m[-x]

\* a dict of lists of signed numbers, keys and values renamed by m
ImageOfLinks(m, d) ==
    [k \in {SignedImage(m, x) : x \in DOMAIN d} |->
        LET x == CHOOSE y \in DOMAIN d : SignedImage(m, y) = k
        IN  [i \in 1..Len(d[x]) |-> SignedImage(m, d[x][i])]]

\* the one-to-one renamings of the numbers S onto the numbers T
Renamings(S, T) ==
    {m \in [S -> T] : /\ \A a, b \in S : a # b => m[a] # m[b]
                      /\ \A t \in T : \E a \in S : m[a] = t}

\* m carries the graph old onto the current graph
IsRenamedBy(m, old) ==
    /\ \A n \in DOMAIN old.segments : segments[m[n]] = old.segments[n]
    /\ forward_links = ImageOfLinks(m, old.f)
    /\ reverse_links = ImageOfLinks(m, old.r)
    /\ DOMAIN copy_depths = {m[n] : n \in DOMAIN old.copy_depths}
    /\ \A n \in DOMAIN old.copy_depths : copy_depths[m[n]] = old.copy_depths[n]
    /\ DOMAIN paths = DOMAIN old.paths
    /\ \A name \in DOMAIN old.paths :
           paths[name] = [i \in 1..Len(old.paths[name]) |-> SignedImage(m, old.paths[name][i])]

\* the numbers are 1..n, longest segment first, and the graph is a renaming of pre
DenseRenaming ==
    /\ DOMAIN segments = 1..Cardinality(DOMAIN pre.segments)
    /\ \A i, j \in DOMAIN segments :
           i < j => get_length(segments[i]) >= get_length(segments[j])
    /\ \E m \in Renamings(DOMAIN pre.segments, DOMAIN segments) : IsRenamedBy(m, pre)

\* C13: after renumber_segments the segment numbers are exactly 1..n with
\* length non-increasing in the number, the links, copy depths and paths are
\* the images of the old ones under the renaming, and a second call in a row
\* changes nothing
C13_RenumberIsomorphism ==
    /\ []((raised = "none" /\ last.op \in {"renumber_segments", "renumber_again"})
              => DenseRenaming)
    /\ [][(last'.op = "renumber_again" /\ last.op = "renumber_segments")
              => /\ raised' = "none"
                 /\ segments' = segments
                 /\ forward_links' = forward_links
                 /\ reverse_links' = reverse_links
                 /\ copy_depths' = copy_depths
                 /\ paths' = paths]_vars

\* two calls in a row have returned on a graph with links, copy depths and
\* a path, whose newest segment 5 was the longest and became segment 1
C13_Witness ==
    /\ raised = "none" /\ last.op = "renumber_again"
    /\ 5 \in DOMAIN pre.segments /\ segments[1] = pre.segments[5]
    /\ pre.f # EmptyDict /\ pre.paths # EmptyDict /\ pre.copy_depths # EmptyDict


----------------------------------------------------------------------------
(* remove_segments: what it takes away and what it leaves alone.           *)

\* no key and no value of the link dict d is a strand of a segment of S
LinksAvoid(d, S) ==
    \A k \in DOMAIN d : Abs(k) \notin S /\ \A i \in 1..Len(d[k]) : Abs(d[k][i]) \notin S

\* the links of old between strands of segments outside S are those of d
LinksKeptOutside(d, old, S) ==
    \A a, b \in {x \in Ids : Abs(x) \notin S} :
        Count(b, Get(d, a)) = Count(b, Get(old, a))

\* C14: after remove_segments(S) no number of S is a key of the segment map
\* or the copy-depth map, no key or value of either link map and no path
\* holds a strand of S; segments and copy depths outside S, links between
\* segments outside S and paths that did not touch S are as before
C14_RemoveSegmentsFrame ==
    (raised = "none" /\ last.op = "remove_segments") =>
        LET S == Range(last.path)
            touched(name) == \E i \in 1..Len(pre.paths[name]) : Abs(pre.paths[name][i]) \in S
        IN  /\ DOMAIN segments = DOMAIN pre.segments \ S
            /\ DOMAIN copy_depths = DOMAIN pre.copy_depths \ S
            /\ LinksAvoid(forward_links, S) /\ LinksAvoid(reverse_links, S)
            /\ \A name \in DOMAIN paths :
                   \A i \in 1..Len(paths[name]) : Abs(paths[name][i]) \notin S
            /\ \A n \in DOMAIN segments : segments[n] = pre.segments[n]
            /\ \A n \in DOMAIN copy_depths : copy_depths[n] = pre.copy_depths[n]
            /\ LinksKeptOutside(forward_links, pre.f, S)
            /\ LinksKeptOutside(reverse_links, pre.r, S)
            /\ DOMAIN paths = {name \in DOMAIN pre.paths : ~touched(name)}
            /\ \A name \in DOMAIN paths : paths[name] = pre.paths[name]

\* a removal that cut one link out of a list of two, and left a path alone
C14_Witness ==
    /\ raised = "none" /\ last.op = "remove_segments"
    /\ \E a \in DOMAIN pre.f : \E i, j \in 1..Len(pre.f[a]) :
           /\ Abs(a) \notin Range(last.path)
           /\ Abs(pre.f[a][i]) \in Range(last.path)
           /\ Abs(pre.f[a][j]) \notin Range(last.path)
    /\ paths # EmptyDict


----------------------------------------------------------------------------
(* remove_link on a link the graph does not hold.                          *)

\* remove_link called with any two signed segment numbers, linked or not
NextRemoveLink == Idle /\ \E start, end \in Live : RemoveLink(start, end)

SpecRemoveLink == Init /\ [][NextRemoveLink]_vars

----------------------------------------------------------------------------
(* filter_by_read_depth. Depths are whole numbers and the relative cutoff  *)
(* is the fraction r[1] / r[2], so depth < median * cutoff is               *)
(* depth * r[2] < median * r[1].                                           *)

\* read depths of the segments of the graph the filter is given
FilterDepths == {1, 4, 16}

\* relative depth cutoffs
CutoffRatios == {<<1, 4>>, <<1, 2>>}

SetMin(S) == CHOOSE m \in S : \A x \in S : m <= x

\* sorted(segment_list, key=depth): a stable sort of the listed numbers
RECURSIVE sorted_by_depth(_, _)
sorted_by_depth(segs, segment_list) ==
    IF segment_list = <<>> THEN <<>>
    ELSE Bind(SetMin({segs[segment_list[i]].depth : i \in 1..Len(segment_list)}), LAMBDA lowest :
         Bind(segment_list[CHOOSE i \in 1..Len(segment_list) :
                               /\ segs[segment_list[i]].depth = lowest
                               /\ \A j \in 1..(i-1) : segs[segment_list[j]].depth # lowest],
              LAMBDA first :
         Bind(SelectSeq(segment_list, LAMBDA n : n # first), LAMBDA rest :
              <<first>> \o sorted_by_depth(segs, rest))))

\* the second loop of get_median_read_depth from the i-th sorted segment on
RECURSIVE median_scan(_, _, _, _, _, _)
median_scan(segs, ov, sorted_segments, i, length_so_far, halfway_length) ==
    IF i > Len(sorted_segments) THEN 0
    ELSE Bind(length_so_far + get_length_no_overlap(segs[sorted_segments[i]], ov), LAMBDA so_far :
             IF so_far >= halfway_length THEN segs[sorted_segments[i]].depth
             ELSE median_scan(segs, ov, sorted_segments, i + 1, so_far, halfway_length))

\* a median that is the depth of the first segment in depth order
lowest_depth(G, ov, segment_list) ==
    IF segment_list = <<>> THEN 0
    ELSE SetMin({G.segments[segment_list[i]].depth : i \in 1..Len(segment_list)})

\* segment_list holds segment numbers; an empty list stands for all segments
get_median_read_depth(G, ov, segment_list) ==
    Bind(sorted_by_depth(G.segments, IF segment_list = <<>> THEN G.order ELSE segment_list),
         LAMBDA sorted_segments :
    Bind(SumSeq([i \in 1..Len(sorted_segments) |->
                    get_length_no_overlap(G.segments[sorted_segments[i]], ov)]),
         LAMBDA total_length :
         median_scan(G.segments, ov, sorted_segments, 1, 0, total_length \div 2)))

all_segments_below_depth(G, segment_nums, cutoff_num, cutoff_den) ==
    \A num \in segment_nums : G.segments[num].depth * cutoff_den < cutoff_num

\* the test of the inner loop for seg_num: [mark |-> it is appended, exc |-> ...]
depth_filter_test(G, component, seg_num, whole_median, component_median, r) ==
    LET depth == G.segments[seg_num].depth
    IN  IF ~(depth * r[2] < whole_median * r[1] \/ depth * r[2] < component_median * r[1])
        THEN [mark |-> FALSE, exc |-> "none"]
        ELSE IF dead_end_count(G, seg_num) > 0
                \/ all_segments_below_depth(G, component, whole_median * r[1], r[2])
        THEN [mark |-> TRUE, exc |-> "none"]
        ELSE Bind(dead_end_change_if_deleted(G, seg_num), LAMBDA change :
                 [mark |-> change.exc = "none" /\ change.val <= 0, exc |-> change.exc])

\* the component of seg_num as the list its segments are looked at in
component_list(G, seg_num) ==
    SelectSeq(G.order, LAMBDA n : n \in component_of(G, {seg_num}))

filter_by_read_depth(G, ov, r) ==
    Bind(get_median_read_depth(G, ov, <<>>), LAMBDA whole_median :
    Bind([seg_num \in DOMAIN G.segments |->
             Bind(component_list(G, seg_num), LAMBDA component :
                 depth_filter_test(G, Range(component), seg_num, whole_median,
                                   get_median_read_depth(G, ov, component), r))],
         LAMBDA tests :
             IF \E n \in DOMAIN tests : tests[n].exc # "none"
             THEN [G |-> G, exc |-> "KeyError"]
             ELSE [G |-> remove_segments(G, {n \in DOMAIN tests : tests[n].mark}),
                   exc |-> "none"]))

\* the graph clean() hands to the filter: loaded links, read depths from
\* FilterDepths, no copy depths yet
InitFilter ==
    /\ \E chosen \in SUBSET (1..Len(InitLinkPool)) :
          /\ Cardinality(chosen) <= MaxInitLinks
          /\ forward_links = loaded_forward_links(ChosenLines(chosen))
          /\ reverse_links = build_reverse_links(forward_links, loaded_key_order(ChosenLines(chosen)))
    /\ \E depths \in [1..Len(InitSegments) -> FilterDepths] :
          segments = [n \in 1..Len(InitSegments) |-> [InitSegments[n] EXCEPT !.depth = depths[n]]]
    /\ seg_order = [n \in 1..Len(InitSegments) |-> n]
    /\ copy_depths = EmptyDict
    /\ paths = EmptyDict
    /\ overlap = 1
    /\ raised = "none"
    /\ last = Last("load", 0, 0, <<>>, 0)
    /\ pre = CurG
    /\ ops = 0
    /\ NoBridging

FilterByReadDepth(r) ==
    /\ Idle
    /\ \E res \in {filter_by_read_depth(CurG, overlap, r)} :
           /\ SetG(res.G)
           /\ Done("filter_by_read_depth", r[1], r[2], <<>>, 0, res.exc)
    /\ UNCHANGED <<overlap, bridging_vars>>

NextFilter == Idle /\ \E r \in CutoffRatios : FilterByReadDepth(r)

SpecFilter == InitFilter /\ [][NextFilter]_vars

\* two segments are neighbours when a link joins a strand of one to a strand of the other
Neighbours(G, n) ==
    {m \in DOMAIN G.segments :
        \E x \in {n, -n}, y \in {m, -m} : has_link(G.f, x, y) \/ has_link(G.f, y, x)}

RECURSIVE Reach(_, _)
Reach(G, S) ==
    LET more == UNION {Neighbours(G, n) : n \in S}
    IN  IF more \subseteq S THEN S ELSE Reach(G, S \cup more)

\* the median depth by base of the segments S: the lowest depth d such that
\* the segments of depth up to d hold at least half (rounded down) of the bases
BaseMedian(G, ov, S) ==
    LET bases(T) == SumOver(T, [n \in T |-> get_length_no_overlap(G.segments[n], ov)])
        upto(d) == {n \in S : G.segments[n].depth <= d}
    IN  SetMin({G.segments[n].depth : n \in {k \in S : bases(upto(G.segments[k].depth))
                                                       >= bases(S) \div 2}})

\* the segments the filter is to remove from G for the cutoff num / den
BelowAndRemovable(G, ov, num, den) ==
    {n \in DOMAIN G.segments :
        LET component == Reach(G, {n})
            below(m, median) == G.segments[m].depth * den < median * num
            whole == BaseMedian(G, ov, DOMAIN G.segments)
        IN  /\ below(n, whole) \/ below(n, BaseMedian(G, ov, component))
            /\ \/ dead_end_count(G, n) > 0
               \/ \A m \in component : below(m, whole)
               \/ dead_end_change_if_deleted(G, n).val <= 0}

\* C16: filter_by_read_depth(r) removes exactly the segments that are below
\* the whole-graph cutoff or their component's cutoff and that, on the graph
\* before any removal, have a dead end, or lie in a component wholly below
\* the whole-graph cutoff, or whose deletion adds no dead end; a segment at
\* or above both cutoffs stays
C16_FilterByReadDepth ==
    (raised = "none" /\ last.op = "filter_by_read_depth") =>
        /\ DOMAIN pre.segments \ DOMAIN segments
               = BelowAndRemovable(pre, overlap, last.a, last.b)
        /\ \A n \in DOMAIN pre.segments :
               (/\ pre.segments[n].depth * last.b
                       >= BaseMedian(pre, overlap, DOMAIN pre.segments) * last.a
                /\ pre.segments[n].depth * last.b
                       >= BaseMedian(pre, overlap, Reach(pre, {n})) * last.a)
                   => n \in DOMAIN segments

\* the filter removed a segment and kept another one that is below a cutoff
\* too, because deleting that one would add a dead end
C16_Witness ==
    /\ raised = "none" /\ last.op = "filter_by_read_depth"
    /\ DOMAIN segments # DOMAIN pre.segments
    /\ \E n \in DOMAIN segments :
           /\ pre.segments[n].depth * last.b
                  < BaseMedian(pre, overlap, DOMAIN pre.segments) * last.a
           /\ dead_end_count(pre, n) = 0
           /\ dead_end_change_if_deleted(pre, n).val > 0


----------------------------------------------------------------------------
(* filter_homopolymer_loops                                                *)

\* most L lines of the graph the homopolymer filter is given
MaxLoopLinks == 2

\* sequences of the segments of that graph
LoopSequences == {<<"A", "A">>, <<"a", "A">>, <<"T">>, <<"C", "C">>, <<"A", "C">>, <<>>}

upper_bases == <<"A","T","G","C","R","Y","S","W","K","M","B","D","H","V","N">>
lower_bases == <<"a","t","g","c","r","y","s","w","k","m","b","d","h","v","n">>

\* str.lower() of one character
Lower(base) == IF In(base, upper_bases) THEN lower_bases[IndexOf(base, upper_bases)] ELSE base

is_homopolymer(seg) ==
    /\ Len(seg.forward_sequence) # 0
    /\ \A i \in 2..Len(seg.forward_sequence) :
           Lower(seg.forward_sequence[i]) = Lower(seg.forward_sequence[1])

\* a test that asks only that each segment is a homopolymer
all_segments_are_homopolymers(segments_list) ==
    LET non_empty_segments == SelectSeq(segments_list, LAMBDA x : get_length(x) > 0)
    IN  /\ non_empty_segments # <<>>
        /\ \A i \in 1..Len(non_empty_segments) : is_homopolymer(non_empty_segments[i])

all_segments_are_one_base(segments_list) ==
    LET non_empty_segments == SelectSeq(segments_list, LAMBDA x : get_length(x) > 0)
    IN  /\ non_empty_segments # <<>>
        /\ LET base == Lower(non_empty_segments[1].forward_sequence[1])
           IN  \A i \in 1..Len(non_empty_segments) :
                   /\ is_homopolymer(non_empty_segments[i])
                   /\ \/ Lower(non_empty_segments[i].forward_sequence[1]) = base
                      \/ Lower(reverse_sequence(non_empty_segments[i])[1]) = base

\* the components are looked at one after the other and their numbers
\* collected, then removed in one call
filter_homopolymer_loops(G) ==
    remove_segments(G, {n \in DOMAIN G.segments :
        Bind(component_list(G, n), LAMBDA component_nums :
            all_segments_are_one_base([i \in 1..Len(component_nums) |->
                                          G.segments[component_nums[i]]]))})

InitLoops ==
    /\ \E chosen \in SUBSET (1..Len(InitLinkPool)) :
          /\ Cardinality(chosen) <= MaxLoopLinks
          /\ forward_links = loaded_forward_links(ChosenLines(chosen))
          /\ reverse_links = build_reverse_links(forward_links, loaded_key_order(ChosenLines(chosen)))
    /\ \E seqs \in [1..Len(InitSegments) -> LoopSequences] :
          segments = [n \in 1..Len(InitSegments) |->
                         [InitSegments[n] EXCEPT !.forward_sequence = seqs[n]]]
    /\ seg_order = [n \in 1..Len(InitSegments) |-> n]
    /\ copy_depths = EmptyDict
    /\ paths = EmptyDict
    /\ overlap = 0
    /\ raised = "none"
    /\ last = Last("load", 0, 0, <<>>, 0)
    /\ pre = CurG
    /\ ops = 0
    /\ NoBridging

FilterHomopolymerLoops ==
    /\ Idle
    /\ \E G \in {filter_homopolymer_loops(CurG)} : SetG(G)
    /\ Done("filter_homopolymer_loops", 0, 0, <<>>, 0, "none")
    /\ UNCHANGED <<overlap, bridging_vars>>

SpecLoops == InitLoops /\ [][FilterHomopolymerLoops]_vars

\* the forward sequence is one base repeated, whatever its case
SingleRepeatedBase(seq) ==
    Len(seq) > 0 /\ \A i, j \in 1..Len(seq) : Lower(seq[i]) = Lower(seq[j])

\* segment n of the graph before the call was removed by it
Dropped(n) == n \in DOMAIN pre.segments /\ n \notin DOMAIN segments

\* C17: filter_homopolymer_loops removes a component if and only if the
\* forward sequence of every segment in it is a single repeated base
\* (case-insensitive), also when the segments repeat different bases
C17_HomopolymerLoops ==
    (last.op = "filter_homopolymer_loops") =>
        \A n \in DOMAIN pre.segments :
            Dropped(n) <=> \A m \in Reach(pre, {n}) :
                               SingleRepeatedBase(pre.segments[m].forward_sequence)

\* two homopolymers agree when they repeat the same base or complementary bases
SameOrComplement(s, t) ==
    \/ Lower(s[1]) = Lower(t[1])
    \/ Lower(complement_base(s[1])) = Lower(t[1])

\* C17 amended: a component is removed if and only if it has a segment that
\* is not empty, every such segment is a single repeated base
\* (case-insensitive), and any two of them repeat the same base or
\* complementary bases
C17_HomopolymerLoopsAmended ==
    (last.op = "filter_homopolymer_loops") =>
        \A n \in DOMAIN pre.segments :
            Dropped(n) <=>
                LET non_empty == {m \in Reach(pre, {n}) : Len(pre.segments[m].forward_sequence) > 0}
                    seq(m) == pre.segments[m].forward_sequence
                IN  /\ non_empty # {}
                    /\ \A m \in non_empty : SingleRepeatedBase(seq(m))
                    /\ \A m, k \in non_empty : SameOrComplement(seq(m), seq(k))

\* a component of an A homopolymer and a T homopolymer was removed, and a
\* component of an A homopolymer and a C homopolymer was kept
C17_Witness ==
    /\ last.op = "filter_homopolymer_loops"
    /\ \E n, m \in DOMAIN pre.segments :
           /\ m \in Reach(pre, {n}) /\ Dropped(n) /\ Dropped(m)
           /\ pre.segments[n].forward_sequence = <<"a", "A">>
           /\ pre.segments[m].forward_sequence = <<"T">>
    /\ \E n, m \in DOMAIN segments :
           /\ m \in Reach(pre, {n})
           /\ segments[n].forward_sequence = <<"A", "A">>
           /\ segments[m].forward_sequence = <<"C", "C">>


----------------------------------------------------------------------------
(* Copy depth inference. Read depths are whole numbers; a copy depth is    *)
(* the exact fraction <<numerator, denominator>> in lowest terms that the  *)
(* float arithmetic of the program approximates, and <<1, 0>> stands for   *)
(* float('inf'). Lengths are in units of 500 bases.                        *)

\* min_single_copy_length of determine_copy_depth: 1000 bases
min_single_copy_length == 2

RECURSIVE GCD(_, _)
GCD(a, b) == IF b = 0 THEN a ELSE GCD(b, a % b)

Inf == <<1, 0>>

Frac(n, d) == IF d = 0 THEN Inf ELSE Bind(GCD(n, d), LAMBDA g : <<n \div g, d \div g>>)

FracAdd(a, b) == Frac(a[1] * b[2] + b[1] * a[2], a[2] * b[2])

FracLess(a, b) == a[1] * b[2] < b[1] * a[2]

\* sum(depths)
RECURSIVE FracSum(_)
FracSum(depths) ==
    IF depths = <<>> THEN <<0, 1>>
    ELSE Bind(FracSum(Tail(depths)), LAMBDA rest : FracAdd(depths[1], rest))

\* sorted(depths, reverse=True)
RECURSIVE sorted_descending(_)
sorted_descending(depths) ==
    IF depths = <<>> THEN <<>>
    ELSE Bind(CHOOSE i \in 1..Len(depths) :
                  /\ \A j \in 1..Len(depths) : ~FracLess(depths[i], depths[j])
                  /\ \A j \in 1..(i-1) : FracLess(depths[j], depths[i]),
              LAMBDA i :
         Bind(SubSeq(depths, 1, i - 1) \o SubSeq(depths, i + 1, Len(depths)),
              LAMBDA rest : <<depths[i]>> \o sorted_descending(rest)))

\* abs(source - target) / target, for a whole target depth
get_error(source, target) ==
    IF target > 0
    THEN Frac(Abs(source[1] - target * source[2]), target * source[2])
    ELSE Inf

\* [depths, error, exc]: every source depth times target_depth /
\* sum(source_depths); the division raises when that sum is zero
scale_copy_depths(target_depth, source_depths) ==
    Bind(FracSum(source_depths), LAMBDA source_depth_sum :
    IF source_depth_sum[1] = 0
    THEN [depths |-> <<>>, error |-> Inf, exc |-> "ZeroDivisionError"]
    ELSE
    Bind(<<>> \o [i \in 1..Len(source_depths) |->
                     Frac(target_depth * source_depth_sum[2] * source_depths[i][1],
                          source_depth_sum[1] * source_depths[i][2])],
         LAMBDA scaled_depths :
    Bind(sorted_descending(scaled_depths), LAMBDA sorted_depths :
        [depths |-> sorted_depths, error |-> get_error(source_depth_sum, target_depth),
         exc |-> "none"])))

\* source_depths += self.copy_depths[num] for every source
RECURSIVE source_copy_depths(_, _)
source_copy_depths(cd, source_segment_numbers) ==
    IF source_segment_numbers = <<>> THEN <<>>
    ELSE cd[source_segment_numbers[1]] \o source_copy_depths(cd, Tail(source_segment_numbers))

scale_copy_depths_from_source_segments(G, segment_number, source_segment_numbers) ==
    Bind(source_copy_depths(G.copy_depths, source_segment_numbers), LAMBDA source_depths :
        scale_copy_depths(G.segments[segment_number].depth, source_depths))

lead_exclusively_to(G, segment_num_1, segment_num_2) ==
    segment_num_1 \in DOMAIN G.f /\ G.f[segment_num_1] = <<segment_num_2>>

lead_exclusively_from(G, segment_num_1, segment_num_2) ==
    segment_num_1 \in DOMAIN G.r /\ G.r[segment_num_1] = <<segment_num_2>>

get_exclusive_inputs(G, segment_number) ==
    AbsSeq(SelectSeq(Get(G.r, segment_number),
                     LAMBDA x : lead_exclusively_to(G, x, segment_number)))

get_exclusive_outputs(G, segment_number) ==
    AbsSeq(SelectSeq(Get(G.f, segment_number),
                     LAMBDA x : lead_exclusively_from(G, x, segment_number)))

all_have_copy_depths(cd, segment_numbers) ==
    \A i \in 1..Len(segment_numbers) : segment_numbers[i] \in DOMAIN cd

\* every segment, with or without copy depths
all_segments_in_order(G) == G.order

get_segments_without_copies(G) == SelectSeq(G.order, LAMBDA n : n \notin DOMAIN G.copy_depths)

get_segments_with_two_or_more_copies(G) ==
    SelectSeq(G.order, LAMBDA n : n \in DOMAIN G.copy_depths /\ Len(G.copy_depths[n]) > 1)

Best(num, depths, error) == [num |-> num, depths |-> depths, error |-> error, exc |-> "none"]

\* a comparison under which the first candidate is never replaced
first_candidate_stays(error, lowest_error) == lowest_error = Inf

\* error < lowest_error
improves(error, lowest_error) == FracLess(error, lowest_error)

\* the two tests of the loop body of merge_copy_depths for one source list
merge_candidate(G, num, sources, best) ==
    IF best.exc # "none" THEN best
    ELSE IF sources # <<>> /\ all_have_copy_depths(G.copy_depths, sources)
    THEN Bind(scale_copy_depths_from_source_segments(G, num, sources), LAMBDA scaled :
             IF scaled.exc # "none" THEN [best EXCEPT !.exc = scaled.exc]
             ELSE IF improves(scaled.error, best.error)
             THEN Best(num, scaled.depths, scaled.error)
             ELSE best)
    ELSE best

\* the for loop of merge_copy_depths from the i-th unassigned segment on
RECURSIVE merge_best(_, _, _, _)
merge_best(G, nums, i, best) ==
    IF i > Len(nums) \/ best.exc # "none" THEN best
    ELSE Bind(get_exclusive_inputs(G, nums[i]), LAMBDA exclusive_inputs :
         Bind(get_exclusive_outputs(G, nums[i]), LAMBDA exclusive_outputs :
         Bind(merge_candidate(G, nums[i], exclusive_inputs, best), LAMBDA b1 :
         Bind(merge_candidate(G, nums[i], exclusive_outputs, b1), LAMBDA b2 :
              merge_best(G, nums, i + 1, b2)))))

\* [cd |-> copy_depths after the call, ret |-> the returned 0 or 1,
\*  exc |-> the exception that ended the call]
merge_copy_depths(G, error_margin) ==
    Bind(get_segments_without_copies(G), LAMBDA segments_without :
    Bind(merge_best(G, segments_without, 1, Best(0, <<>>, Inf)), LAMBDA best :
        IF best.exc # "none"
        THEN [cd |-> G.copy_depths, ret |-> 0, exc |-> best.exc]
        ELSE IF best.num # 0 /\ FracLess(best.error, error_margin)
        THEN [cd |-> Put(G.copy_depths, best.num, best.depths), ret |-> 1, exc |-> "none"]
        ELSE [cd |-> G.copy_depths, ret |-> 0, exc |-> "none"]))


\* the ways to put k items into b bins, as lists of bin indexes, in the
\* order the recursion of shuffle_into_bins reaches them
RECURSIVE bin_choices(_, _)
bin_choices(k, b) ==
    IF k = 0 THEN <<<<>>>>
    ELSE Bind(bin_choices(k - 1, b), LAMBDA shorter :
             [n \in 1..(b * Len(shorter)) |->
                 <<((n - 1) \div Len(shorter)) + 1>> \o shorter[((n - 1) % Len(shorter)) + 1]])

\* the bins filled as one choice says, each bin keeping the order of the items
fill_bins(items, b, choice) ==
    [j \in 1..b |-> LET idx == SelectSeq([i \in 1..Len(items) |-> i], LAMBDA i : choice[i] = j)
                    IN  [n \in 1..Len(idx) |-> items[idx[n]]]]

\* targets[i] = 0 stands for None
shuffle_into_bins(items, b, targets) ==
    Bind(bin_choices(Len(items), b), LAMBDA choices :
    Bind([n \in 1..Len(choices) |-> fill_bins(items, b, choices[n])], LAMBDA filled :
         SelectSeq(filled, LAMBDA bins :
             /\ \A j \in 1..b : bins[j] # <<>>
             /\ \A j \in 1..b : targets[j] = 0 \/ targets[j] = Len(bins[j]))))

\* the largest error of a segment against the sum of its bin
get_error_for_multiple_segments_and_depths(G, segment_numbers, bins) ==
    LET errors == {get_error(FracSum(bins[i]), G.segments[segment_numbers[i]].depth) :
                       i \in 1..Len(segment_numbers)}
    IN  CHOOSE e \in errors \cup {<<0, 1>>} :
            \A other \in errors \cup {<<0, 1>>} : ~FracLess(e, other)

\* the loop of assign_copy_depths_where_needed from the i-th segment on
RECURSIVE assign_copy_depths_where_needed(_, _, _, _, _, _)
assign_copy_depths_where_needed(G, cd, segment_numbers, new_depths, error_margin, i) ==
    IF i > Len(segment_numbers) THEN [cd |-> cd, exc |-> "none"]
    ELSE IF segment_numbers[i] \in DOMAIN cd
    THEN assign_copy_depths_where_needed(G, cd, segment_numbers, new_depths, error_margin, i + 1)
    ELSE Bind(scale_copy_depths(G.segments[segment_numbers[i]].depth, new_depths[i]),
              LAMBDA scaled :
         IF scaled.exc # "none" THEN [cd |-> cd, exc |-> scaled.exc]
         ELSE
         Bind(IF ~FracLess(error_margin, scaled.error)
              THEN Put(cd, segment_numbers[i], scaled.depths) ELSE cd,
              LAMBDA cd1 :
              assign_copy_depths_where_needed(G, cd1, segment_numbers, new_depths,
                                              error_margin, i + 1)))

\* the connections the loop body of redistribute_copy_depths settles on for num
redistribute_connections(G, num) ==
    Bind(get_exclusive_inputs(G, num), LAMBDA inputs :
        IF inputs = <<>> \/ all_have_copy_depths(G.copy_depths, inputs)
        THEN get_exclusive_outputs(G, num)
        ELSE inputs)

\* the first arrangement with the lowest error
best_arrangement(G, connections, arrangements) ==
    LET error(n) == get_error_for_multiple_segments_and_depths(G, connections, arrangements[n])
    IN  Bind([n \in 1..Len(arrangements) |-> error(n)], LAMBDA errors :
        Bind(CHOOSE n \in 1..Len(arrangements) :
                 /\ \A m \in 1..Len(arrangements) : ~FracLess(errors[m], errors[n])
                 /\ \A m \in 1..(n-1) : FracLess(errors[n], errors[m]),
             LAMBDA n : [bins |-> arrangements[n], error |-> errors[n]]))

\* the for loop of redistribute_copy_depths from the i-th segment on
RECURSIVE redistribute_scan(_, _, _, _)
redistribute_scan(G, nums, error_margin, i) ==
    IF i > Len(nums) THEN [cd |-> G.copy_depths, ret |-> 0, exc |-> "none"]
    ELSE Bind(redistribute_connections(G, nums[i]), LAMBDA connections :
        IF connections = <<>> \/ all_have_copy_depths(G.copy_depths, connections)
        THEN redistribute_scan(G, nums, error_margin, i + 1)
        ELSE Bind(shuffle_into_bins(G.copy_depths[nums[i]], Len(connections),
                                    [j \in 1..Len(connections) |->
                                        IF connections[j] \in DOMAIN G.copy_depths
                                        THEN Len(G.copy_depths[connections[j]]) ELSE 0]),
                  LAMBDA arrangements :
            IF arrangements = <<>> THEN redistribute_scan(G, nums, error_margin, i + 1)
            ELSE Bind(best_arrangement(G, connections, arrangements), LAMBDA best :
                IF ~FracLess(best.error, error_margin)
                THEN redistribute_scan(G, nums, error_margin, i + 1)
                ELSE Bind(assign_copy_depths_where_needed(G, G.copy_depths, connections,
                                                          best.bins, error_margin, 1),
                          LAMBDA assigned :
                         IF assigned.exc # "none"
                         THEN [cd |-> assigned.cd, ret |-> 0, exc |-> assigned.exc]
                         ELSE IF assigned.cd # G.copy_depths
                         THEN [cd |-> assigned.cd, ret |-> 1, exc |-> "none"]
                         ELSE redistribute_scan(G, nums, error_margin, i + 1)))))

redistribute_copy_depths(G, error_margin) ==
    redistribute_scan(G, get_segments_with_two_or_more_copies(G), error_margin, 1)

at_most_one_link_per_end(G, num) ==
    /\ ~(num \in DOMAIN G.f /\ Len(G.f[num]) > 1)
    /\ ~(num \in DOMAIN G.r /\ Len(G.r[num]) > 1)

exactly_one_link_per_end(G, num) ==
    /\ ~(num \in DOMAIN G.f /\ Len(G.f[num]) # 1)
    /\ ~(num \in DOMAIN G.r /\ Len(G.r[num]) # 1)

\* the longest unassigned segment of at least min_single_copy_length with
\* exactly one link per end gets its own depth as its one copy depth
assign_single_copy_depth(G) ==
    Bind(SelectSeq(sorted_by_length_desc(G.segments, get_segments_without_copies(G)),
                   LAMBDA n : /\ get_length(G.segments[n]) >= min_single_copy_length
                              /\ exactly_one_link_per_end(G, n)),
         LAMBDA suitable :
             IF suitable = <<>> THEN [cd |-> G.copy_depths, ret |-> 0]
             ELSE [cd |-> Put(G.copy_depths, suitable[1],
                              <<Frac(G.segments[suitable[1]].depth, 1)>>),
                   ret |-> 1])

\* bases of the segments with min_depth <= depth <= max_depth, the two
\* limits given in tenths
get_base_count_in_depth_range(G, min_tenths, max_tenths) ==
    Bind({n \in DOMAIN G.segments : /\ G.segments[n].depth * 10 >= min_tenths
                                    /\ G.segments[n].depth * 10 <= max_tenths},
         LAMBDA in_range : SumOver(in_range, [n \in in_range |-> get_length(G.segments[n])]))

get_total_length(G) ==
    SumOver(DOMAIN G.segments, [n \in DOMAIN G.segments |-> get_length(G.segments[n])])

\* twice the median depth: the single-copy depth when no graph is diploid
median_depth_doubled(G, ov) == 2 * get_median_read_depth(G, ov, <<>>)

\* twice the single-copy depth of determine_copy_depth; both fractions have
\* the denominator total_graph_bases, and x / total >= 0.1 is 10 * x >= total
single_copy_depth_doubled(G, ov) ==
    Bind(get_median_read_depth(G, ov, <<>>), LAMBDA median_depth :
    Bind(get_base_count_in_depth_range(G, median_depth * 4, median_depth * 6),
         LAMBDA bases_near_half_median :
    Bind(get_base_count_in_depth_range(G, median_depth * 16, median_depth * 24),
         LAMBDA bases_near_double_median :
         IF /\ bases_near_half_median > bases_near_double_median
            /\ bases_near_half_median * 10 >= get_total_length(G)
         THEN median_depth
         ELSE 2 * median_depth)))

\* copy_depths after the reset and the first loop of determine_copy_depth:
\* depth <= single_copy_depth + 0.1, in twentieths
initial_single_copy_segments(G, doubled) ==
    [n \in {k \in DOMAIN G.segments : /\ G.segments[k].depth * 20 <= doubled * 10 + 2
                                      /\ at_most_one_link_per_end(G, k)} |->
        <<Frac(G.segments[n].depth, 1)>>]


----------------------------------------------------------------------------
(* determine_copy_depth as a process. pc says which call comes next;       *)
(* last.a is the part of determine_copy_depth the process is in (1: after  *)
(* the first seeding, 2: inside the while loop, 3: the last propagation),  *)
(* last.b is the value of assignments, last.ret what the last call         *)
(* returned.                                                               *)

\* most L lines of the graph copy depths are worked out for
MaxCopyLinks == 4

\* numbers of segments of that graph
CopySegmentCounts == {3, 5}

\* read depths of its segments
CopyDepthValues == {10, 12, 20}

\* lengths of its segments, in units of 500 bases
CopyLengths == <<4, 4, 2, 4, 1>>

\* the L lines its file may hold, in file order
CopyLinkPool == <<<<1, 3>>, <<2, 3>>, <<3, 1>>, <<3, 2>>, <<3, 4>>, <<3, 5>>>>

\* a sequence of n bases
BasesOfLength(n) == [i \in 1..n |-> "A"]

\* the chosen lines of a pool, in pool order
LinesOf(pool, chosen) ==
    LET idx == SortedSeq(chosen) IN [i \in 1..Len(idx) |-> pool[idx[i]]]

\* a loaded graph with the given segments and L lines, before any copy depth
LoadedGraph(segs, lines) ==
    /\ forward_links = loaded_forward_links(lines)
    /\ reverse_links = build_reverse_links(forward_links, loaded_key_order(lines))
    /\ segments = segs
    /\ seg_order = [n \in 1..Len(segs) |-> n]
    /\ copy_depths = EmptyDict
    /\ paths = EmptyDict
    /\ overlap = 0
    /\ raised = "none"
    /\ last = Last("load", 0, 0, <<>>, 0)
    /\ pre = CurG
    /\ ops = 0
    /\ NoBridging

InitCopyDepth ==
    \E count \in CopySegmentCounts :
    \E chosen \in SUBSET {i \in 1..Len(CopyLinkPool) :
                             CopyLinkPool[i][1] <= count /\ CopyLinkPool[i][2] <= count} :
    \E depths \in [1..count -> CopyDepthValues] :
        /\ Cardinality(chosen) <= MaxCopyLinks
        /\ LoadedGraph([n \in 1..count |->
                           Segment(depths[n], BasesOfLength(CopyLengths[n]), "none")],
                       LinesOf(CopyLinkPool, chosen))

\* a tolerance of 1.0 in every part of determine_copy_depth
whole_tolerance(part) == <<1, 1>>

\* propogation_tolerance = 0.2, and 1.0 for the last propagation
Tolerance(part) == IF part = 3 THEN <<1, 1>> ELSE <<1, 5>>

\* bookkeeping of one call inside determine_copy_depth
CopyDepthCall(op, part, assignments, ret, next_pc) ==
    /\ last' = Last(op, part, assignments, <<>>, ret)
    /\ pre' = CurG
    /\ pc' = next_pc
    /\ UNCHANGED <<segments, seg_order, forward_links, reverse_links, paths, overlap,
                   ops, sorted_bridges, bridge_i, min_bridge_qual, right_bridged,
                   left_bridged, seg_nums_used_in_bridges, single_copy_nums, applied,
                   removed_segments,
                   working_paths, final_paths>>

\* the reset, the single-copy depth and the first seeding
DetermineCopyDepth ==
    /\ raised = "none" /\ pc = "idle" /\ last.op = "load"
    /\ \E doubled \in {single_copy_depth_doubled(CurG, overlap)} :
           /\ copy_depths' = initial_single_copy_segments(CurG, doubled)
           /\ raised' = raised
           /\ CopyDepthCall("determine_copy_depth", 1, 0, doubled, "merge")

\* one pass of the while loop of determine_copy_depth_part_2
MergeCopyDepths ==
    /\ raised = "none" /\ pc = "merge"
    /\ \E res \in {merge_copy_depths(CurG, Tolerance(last.a))} :
           /\ copy_depths' = res.cd
           /\ raised' = res.exc
           /\ CopyDepthCall("merge_copy_depths", last.a, last.b, res.ret,
                            IF res.ret = 1 THEN "merge" ELSE "redistribute")

\* where determine_copy_depth goes on when determine_copy_depth_part_2 returns
AfterPropagation(part, assignments) ==
    IF part = 1 THEN [pc |-> "assign", part |-> 2]
    ELSE IF part = 2 /\ assignments = 1 THEN [pc |-> "assign", part |-> 2]
    ELSE IF part = 2 THEN [pc |-> "merge", part |-> 3]
    ELSE [pc |-> "copy_depth_done", part |-> 3]

\* the if of determine_copy_depth_part_2: a redistribution starts the
\* function again, none makes it return
RedistributeCopyDepths ==
    /\ raised = "none" /\ pc = "redistribute"
    /\ \E res \in {redistribute_copy_depths(CurG, Tolerance(last.a))} :
           /\ copy_depths' = res.cd
           /\ raised' = res.exc
           /\ IF res.ret = 1
              THEN CopyDepthCall("redistribute_copy_depths", last.a, last.b, 1, "merge")
              ELSE \E next \in {AfterPropagation(last.a, last.b)} :
                       CopyDepthCall("redistribute_copy_depths", next.part, last.b, 0, next.pc)

\* assignments = self.assign_single_copy_depth(...) at the top of the while loop
AssignSingleCopyDepth ==
    /\ raised = "none" /\ pc = "assign"
    /\ \E res \in {assign_single_copy_depth(CurG)} :
           /\ copy_depths' = res.cd
           /\ raised' = raised
           /\ CopyDepthCall("assign_single_copy_depth", 2, res.ret, res.ret, "merge")

NextCopyDepth ==
    \/ DetermineCopyDepth
    \/ MergeCopyDepths
    \/ RedistributeCopyDepths
    \/ AssignSingleCopyDepth

\* the interpreter always runs the next call of determine_copy_depth
SpecCopyDepth == InitCopyDepth /\ [][NextCopyDepth]_vars /\ WF_vars(NextCopyDepth)

\* C18: every call of merge_copy_depths and of redistribute_copy_depths
\* either returns 0 and leaves copy_depths as it was, or returns 1, gives a
\* copy depth to at least one segment that had none and changes no copy
\* depth a segment had; and determine_copy_depth, with its propagation and
\* seeding loops, comes to its end
C18_CopyDepthMonotonic ==
    /\ [](last.op \in {"merge_copy_depths", "redistribute_copy_depths"} =>
             \/ last.ret = 0 /\ copy_depths = pre.copy_depths
             \/ /\ last.ret = 1
                /\ DOMAIN copy_depths \ DOMAIN pre.copy_depths # {}
                /\ \A n \in DOMAIN pre.copy_depths :
                       n \in DOMAIN copy_depths /\ copy_depths[n] = pre.copy_depths[n])
    /\ (pc = "merge") ~> (pc = "copy_depth_done")

\* a redistribution has handed the two copies of segment 3 to segments 4
\* and 5, which had no copy depth
C18_Witness ==
    /\ last.op = "redistribute_copy_depths" /\ last.ret = 1
    /\ Len(pre.copy_depths[3]) = 2
    /\ DOMAIN copy_depths \ DOMAIN pre.copy_depths = {4, 5}


\* the candidates of one call of merge_copy_depths on G: an unassigned
\* segment with its exclusive inputs or its exclusive outputs, when that list
\* is non-empty and every segment of it has copy depths
MergeCandidates(G) ==
    {c \in UNION {{<<n, get_exclusive_inputs(G, n)>>, <<n, get_exclusive_outputs(G, n)>>} :
                     n \in DOMAIN G.segments \ DOMAIN G.copy_depths} :
        /\ c[2] # <<>>
        /\ \A i \in 1..Len(c[2]) : c[2][i] \in DOMAIN G.copy_depths}

\* all copy depths of the sources of a candidate, as one list
SourceDepths(G, c) == source_copy_depths(G.copy_depths, c[2])

\* |source_sum - depth(n)| / depth(n) of a candidate
CandidateError(G, c) ==
    LET sum == FracSum(SourceDepths(G, c))
        depth == G.segments[c[1]].depth
    IN  Frac(Abs(sum[1] - depth * sum[2]), depth * sum[2])

\* v holds the source depths of candidate c, each multiplied by
\* depth(n) / source_sum, from the largest to the smallest
IsScaledVector(G, c, v) ==
    LET src == SourceDepths(G, c)
        sum == FracSum(src)
        depth == G.segments[c[1]].depth
        scaled(d) == Frac(d[1] * depth * sum[2], d[2] * sum[1])
    IN  /\ Len(v) = Len(src)
        /\ \A i \in 1..(Len(v) - 1) : ~FracLess(v[i], v[i + 1])
        /\ \A x \in Range(v) \cup {scaled(src[k]) : k \in 1..Len(src)} :
               Cardinality({i \in 1..Len(v) : v[i] = x})
                   = Cardinality({k \in 1..Len(src) : scaled(src[k]) = x})
        /\ FracSum(v) = <<depth, 1>>

\* C19: one call of merge_copy_depths(t) assigns at most one segment. When
\* the smallest error over all candidates is below t the call returns 1 and
\* one candidate of that smallest error gets the copy depths of its sources
\* scaled to sum to its depth, sorted descending, nothing else changing;
\* otherwise the call returns 0 and changes nothing
C19_MergeCopyDepths ==
    last.op = "merge_copy_depths" =>
        LET C == MergeCandidates(pre)
            t == Tolerance(last.a)
            minimal(c) == \A d \in C : ~FracLess(CandidateError(pre, d), CandidateError(pre, c))
        IN  IF \E c \in C : FracLess(CandidateError(pre, c), t)
            THEN /\ last.ret = 1
                 /\ \E c \in C :
                        /\ minimal(c)
                        /\ DOMAIN copy_depths = DOMAIN pre.copy_depths \cup {c[1]}
                        /\ \A n \in DOMAIN pre.copy_depths : copy_depths[n] = pre.copy_depths[n]
                        /\ IsScaledVector(pre, c, copy_depths[c[1]])
            ELSE /\ last.ret = 0
                 /\ copy_depths = pre.copy_depths

\* the triangle 1->3, 2->3, 3->1, 3->2: segments 1 and 2 were seeded with
\* [10] and the merge has given segment 3 of depth 20 the copy depths [10, 10]
C19_Witness ==
    /\ last.op = "merge_copy_depths" /\ last.ret = 1
    /\ DOMAIN segments = {1, 2, 3}
    /\ segments[3].depth = 20
    /\ Get(forward_links, 1) = <<3>> /\ Get(forward_links, 2) = <<3>>
    /\ Get(forward_links, 3) = <<1, 2>>
    /\ pre.copy_depths = (1 :> <<<<10, 1>>>>) @@ (2 :> <<<<10, 1>>>>)
    /\ copy_depths[3] = <<<<10, 1>>, <<10, 1>>>>
    /\ CandidateError(pre, <<3, <<1, 2>>>>) = <<0, 1>>


----------------------------------------------------------------------------
(* The single-copy depth of determine_copy_depth on graphs whose depths    *)
(* are half or double of one another. last.ret of "determine_copy_depth"   *)
(* is twice the single-copy depth.                                         *)

\* read depths of the segments of these graphs
DiploidDepths == {50, 100, 200}

\* lengths of their segments, in units of 500 bases: 50 kb, 200 kb, 250 kb
DiploidLengths == {100, 400, 500}

\* the L lines their file may hold, in file order
DiploidLinkPool == <<<<1, 2>>, <<2, 3>>>>

InitDiploid ==
    \E chosen \in SUBSET (1..Len(DiploidLinkPool)) :
    \E depths \in [1..3 -> DiploidDepths] :
    \E lengths \in [1..3 -> DiploidLengths] :
        LoadedGraph([n \in 1..3 |-> Segment(depths[n], BasesOfLength(lengths[n]), "none")],
                    LinesOf(DiploidLinkPool, chosen))

SpecDiploid == InitDiploid /\ [][NextCopyDepth]_vars /\ WF_vars(NextCopyDepth)

\* the bases of the segments of G whose depth d has lo <= 10 * d <= hi
BasesInTenths(G, lo, hi) ==
    LET S == {n \in DOMAIN G.segments : lo <= 10 * G.segments[n].depth
                                        /\ 10 * G.segments[n].depth <= hi}
    IN  SumOver(S, [n \in S |-> Len(G.segments[n].forward_sequence)])

\* the bases of the segments of G of depth d
BasesAtDepth(G, d) == BasesInTenths(G, 10 * d, 10 * d)

\* twice the single-copy depth the rule gives for G: M when the bases in
\* [0.4M, 0.6M] outnumber those in [1.6M, 2.4M] and are at least 10% of all
\* bases, 2M otherwise
DiploidRule(G, ov) ==
    LET M == BaseMedian(G, ov, DOMAIN G.segments)
        half == BasesInTenths(G, 4 * M, 6 * M)
        double == BasesInTenths(G, 16 * M, 24 * M)
        total == BasesInTenths(G, 0, 10 * SetMax({G.segments[n].depth : n \in DOMAIN G.segments}))
    IN  IF half > double /\ 10 * half >= total THEN M ELSE 2 * M

\* 50 kb of segments at depth 50 and 500 kb of segments at depth 100
ExampleDiploidGraph(G) ==
    /\ BasesAtDepth(G, 50) = 100
    /\ BasesAtDepth(G, 100) = 1000
    /\ \A n \in DOMAIN G.segments : G.segments[n].depth \in {50, 100}

\* C20 as stated: the single-copy depth is M/2 exactly when the bases in
\* [0.4M, 0.6M] outnumber those in [1.6M, 2.4M] and are at least 10% of all
\* bases, M otherwise; and for 50 kb at depth 50 with 500 kb at depth 100 the
\* single-copy depth is 50
C20_DiploidDetection ==
    last.op = "determine_copy_depth" =>
        /\ last.ret = DiploidRule(pre, overlap)
        /\ ExampleDiploidGraph(pre) => last.ret = 2 * 50

\* C20, amended: the same rule; for 50 kb at depth 50 with 500 kb at depth
\* 100 the bases near half the median are 50 of 550 kb, less than 10%, and
\* the single-copy depth is the median, 100
C20_DiploidDetectionAmended ==
    last.op = "determine_copy_depth" =>
        /\ last.ret = DiploidRule(pre, overlap)
        /\ ExampleDiploidGraph(pre) => last.ret = 2 * 100

\* 50 kb at depth 50 with 450 kb at depth 100: exactly 10% of the bases are
\* near half the median and the single-copy depth is 50
C20_Witness ==
    /\ last.op = "determine_copy_depth"
    /\ BasesAtDepth(pre, 50) = 100 /\ BasesAtDepth(pre, 100) = 900
    /\ BasesAtDepth(pre, 200) = 0
    /\ last.ret = 2 * 50


----------------------------------------------------------------------------
(* Copy depths on graphs that hold segments of depth 0: such a segment is  *)
(* seeded with the copy depths [0], and the copy depths of its neighbours  *)
(* are then scaled from a sum of zero.                                     *)

\* read depths of the segments of these graphs
DegenerateDepths == {0, 10, 20}

\* the L lines their file may hold, in file order
DegenerateLinkPool == <<<<1, 2>>, <<2, 3>>, <<3, 1>>>>

InitDegenerate ==
    \E chosen \in SUBSET (1..Len(DegenerateLinkPool)) :
    \E depths \in [1..3 -> DegenerateDepths] :
        LoadedGraph([n \in 1..3 |-> Segment(depths[n], BasesOfLength(CopyLengths[n]), "none")],
                    LinesOf(DegenerateLinkPool, chosen))

SpecDegenerate == InitDegenerate /\ [][NextCopyDepth]_vars /\ WF_vars(NextCopyDepth)

\* the candidates of merge_copy_depths on G whose source copy depths sum to zero
ZeroSumCandidates(G) ==
    {c \in MergeCandidates(G) : FracSum(SourceDepths(G, c))[1] = 0}

\* C21: when the copy depths of the sources of a candidate sum to zero,
\* merge_copy_depths ends without an exception and the candidate's segment
\* gets no copy depths from those sources
C21_ZeroSumRecovered ==
    (last.op = "merge_copy_depths" /\ ZeroSumCandidates(pre) # {}) =>
        /\ raised = "none"
        /\ \A c \in ZeroSumCandidates(pre) :
               c[1] \in DOMAIN copy_depths => ~IsScaledVector(pre, c, copy_depths[c[1]])


----------------------------------------------------------------------------
(* remove_segment_depth called on its own, on graphs whose segments have   *)
(* no copy depths, none left, one, or several.                             *)

\* the copy depths a segment may have when the call starts, largest first;
\* an empty list is what an earlier removal leaves of a single copy depth
RemoveDepthCopyLists == {<<>>, <<4>>, <<5, 3>>, <<5, 5, 3>>}

\* the depths a call may remove
RemoveDepthValues == {1, 4, 6, 13}

InitRemoveDepth ==
    /\ \E assigned \in SUBSET {1, 2, 3} :
       \E lists \in [assigned -> RemoveDepthCopyLists] :
           copy_depths = lists
    /\ segments = [n \in 1..Len(InitSegments) |-> InitSegments[n]]
    /\ seg_order = [n \in 1..Len(InitSegments) |-> n]
    /\ forward_links = loaded_forward_links(<<<<1, 2>>>>)
    /\ reverse_links = build_reverse_links(forward_links, loaded_key_order(<<<<1, 2>>>>))
    /\ paths = EmptyDict
    /\ overlap = 1
    /\ raised = "none"
    /\ last = Last("load", 0, 0, <<>>, 0)
    /\ pre = CurG
    /\ ops = 0
    /\ NoBridging

RemoveSegmentDepth(seg_num, depth_to_remove) ==
    /\ SetG(remove_segment_depth(CurG, seg_num, depth_to_remove))
    /\ Done("remove_segment_depth", seg_num, depth_to_remove, <<>>, 0, "none")
    /\ UNCHANGED <<overlap, bridging_vars>>

NextRemoveDepth ==
    Idle /\ \E seg_num \in Signed(1..(Len(InitSegments) + 1)) :
            \E depth_to_remove \in RemoveDepthValues :
                RemoveSegmentDepth(seg_num, depth_to_remove)

SpecRemoveDepth == InitRemoveDepth /\ [][NextRemoveDepth]_vars

\* s without its i-th element
WithoutIndex(s, i) == SubSeq(s, 1, i - 1) \o SubSeq(s, i + 1, Len(s))

\* C22: remove_segment_depth(n, d) sets depth(|n|) to max(0, depth - d), never
\* below 0; when copy_depths(|n|) is non-empty it removes exactly one entry,
\* one of minimal |entry - d|, and keeps the others; it changes nothing when
\* |n| is not a live segment; no other segment's depth or copy depths and no
\* link changes
C22_RemoveSegmentDepth ==
    last.op = "remove_segment_depth" =>
        LET n == Abs(last.a)
            d == last.b
            old == pre.copy_depths
        IN  IF n \notin DOMAIN pre.segments THEN CurG = pre
            ELSE /\ DOMAIN segments = DOMAIN pre.segments
                 /\ segments[n] = [pre.segments[n] EXCEPT
                                      !.depth = Max(0, pre.segments[n].depth - d)]
                 /\ segments[n].depth >= 0
                 /\ \A m \in DOMAIN segments \ {n} : segments[m] = pre.segments[m]
                 /\ DOMAIN copy_depths = DOMAIN old
                 /\ \A m \in DOMAIN old \ {n} : copy_depths[m] = old[m]
                 /\ n \in DOMAIN old =>
                        IF old[n] = <<>> THEN copy_depths[n] = <<>>
                        ELSE \E i \in 1..Len(old[n]) :
                                /\ \A j \in 1..Len(old[n]) :
                                       Abs(old[n][i] - d) <= Abs(old[n][j] - d)
                                /\ copy_depths[n] = WithoutIndex(old[n], i)
                 /\ forward_links = pre.f /\ reverse_links = pre.r /\ paths = pre.paths

\* the call, naming segment 2 by its reverse strand, removed depth 6 from a
\* segment of depth 4: its depth is 0, and of its copy depths 5, 5, 3 one 5,
\* the closest to 6, is gone
C22_Witness ==
    /\ last.op = "remove_segment_depth" /\ last.a = -2 /\ last.b = 6
    /\ pre.segments[2].depth = 4 /\ segments[2].depth = 0
    /\ 2 \in DOMAIN pre.copy_depths
    /\ pre.copy_depths[2] = <<5, 5, 3>> /\ copy_depths[2] = <<5, 3>>


----------------------------------------------------------------------------
(* The depth-weighted base count of the graph.                             *)

\* sum over the segments segs of depth times length
WeightedBases(segs) ==
    SumOver(DOMAIN segs, [n \in DOMAIN segs |-> segs[n].depth * Len(segs[n].forward_sequence)])

\* total length of the segments a path steps through
InteriorLength(segs, graph_path) ==
    SumSeq([i \in 1..Len(graph_path) |-> Len(segs[Abs(graph_path[i])].forward_sequence)])

\* what the segments of graph_path lose when depth is taken from each step of
\* the path and no depth goes below 0
InteriorLoss(segs, graph_path, depth) ==
    LET S == {Abs(graph_path[i]) : i \in 1..Len(graph_path)}
        steps(n) == Cardinality({i \in 1..Len(graph_path) : Abs(graph_path[i]) = n})
    IN  SumOver(S, [n \in S |-> (segs[n].depth - Max(0, segs[n].depth - steps(n) * depth))
                                    * Len(segs[n].forward_sequence)])

----------------------------------------------------------------------------
(* all_paths. Its while loop runs as a process: working_paths and          *)
(* final_paths are the lists of that name, pc = "all_paths" while the loop *)
(* runs, and last holds the arguments: a = start, b = end, path =          *)
(* <<min_length, target_length, max_length, max_path_count>>, where a      *)
(* max_path_count of 0 stands for None.                                    *)

\* max_working_paths of all_paths
max_working_paths == 10000

\* the length of a path; its KeyError handler returns 0
get_path_length(G, ov, path) ==
    IF \E i \in 1..Len(path) : Abs(path[i]) \notin DOMAIN G.segments THEN 0
    ELSE SumSeq([i \in 1..Len(path) |-> get_length(G.segments[Abs(path[i])])])
             - (Len(path) - 1) * ov

\* weighted_average of unicycler.misc, as the fraction
\* (num_1 * weight_1 + num_2 * weight_2) / (weight_1 + weight_2)
weighted_average(num_1, num_2, weight_1, weight_2) ==
    <<num_1 * weight_1 + num_2 * weight_2, weight_1 + weight_2>>

\* start_end_depth of all_paths
start_end_depth(G, ov, start, end) ==
    weighted_average(G.segments[Abs(start)].depth, G.segments[Abs(end)].depth,
                     get_length_no_overlap(G.segments[Abs(start)], ov),
                     get_length_no_overlap(G.segments[Abs(end)], ov))

\* int(round(p / q)) for p >= 0 and q > 0: halves go to the even neighbour
round_half_even(p, q) ==
    LET floor == p \div q
        twice == 2 * (p % q)
    IN  IF twice < q THEN floor
        ELSE IF twice > q THEN floor + 1
        ELSE IF floor % 2 = 0 THEN floor ELSE floor + 1

\* max_allowed_counts[abs(next_seg)]: what the loop stores at the first
\* visit of the segment, which depends on the graph alone
max_allowed_count(G, sed, num) ==
    LET count_by_copies == IF num \in DOMAIN G.copy_depths THEN Len(G.copy_depths[num]) ELSE 1
        count_by_depth == Max(1, round_half_even(G.segments[num].depth * sed[2], sed[1]))
    IN  2 * Max(count_by_copies, count_by_depth)

\* the working path with next_seg added, however often it holds it already
uncapped_working_path(G, sed, working_path, next_seg) == <<Append(working_path, next_seg)>>

\* the inner for loop over one next_seg: the extended working path, or nothing
extended_working_path(G, sed, working_path, next_seg) ==
    IF Count(next_seg, working_path) + Count(-next_seg, working_path)
           < max_allowed_count(G, sed, Abs(next_seg))
    THEN <<Append(working_path, next_seg)>>
    ELSE <<>>

\* for next_seg in self.forward_links[last_seg], from the i-th on
RECURSIVE FlatExtend(_, _, _, _, _)
FlatExtend(G, sed, working_path, nexts, i) ==
    IF i > Len(nexts) THEN <<>>
    ELSE Bind(extended_working_path(G, sed, working_path, nexts[i]), LAMBDA first :
             first \o FlatExtend(G, sed, working_path, nexts, i + 1))

\* the body of the for loop of all_paths for one working path:
\* [final |-> what it appends to final_paths, new |-> what it appends to
\*  new_working_paths, exc |-> the exception that ended it]
working_path_step(G, ov, sed, end, min_length, max_length, working_path) ==
    LET last_seg == working_path[Len(working_path)]
        potential_result == SubSeq(working_path, 1, Len(working_path) - 1)
    IN  IF last_seg = end
        THEN [final |-> IF get_path_length(G, ov, potential_result) >= min_length
                        THEN <<potential_result>> ELSE <<>>,
              new |-> <<>>, exc |-> "none"]
        ELSE IF get_path_length(G, ov, working_path) <= max_length
                /\ last_seg \in DOMAIN G.f
        THEN IF G.f[last_seg] # <<>> /\ sed[1] = 0
             THEN [final |-> <<>>, new |-> <<>>, exc |-> "ZeroDivisionError"]
             ELSE [final |-> <<>>,
                   new |-> FlatExtend(G, sed, working_path, G.f[last_seg], 1),
                   exc |-> "none"]
        ELSE [final |-> <<>>, new |-> <<>>, exc |-> "none"]

\* one pass of the while loop over the working paths from the i-th on
RECURSIVE all_paths_pass(_, _, _, _, _, _, _, _, _)
all_paths_pass(G, ov, sed, end, min_length, max_length, working, i, acc) ==
    IF i > Len(working) \/ acc.exc # "none" THEN acc
    ELSE Bind(working_path_step(G, ov, sed, end, min_length, max_length, working[i]),
              LAMBDA step :
         Bind([final |-> acc.final \o step.final, new |-> acc.new \o step.new,
               exc |-> step.exc], LAMBDA acc1 :
              all_paths_pass(G, ov, sed, end, min_length, max_length, working, i + 1, acc1)))

\* random.sample(working_paths, k): k of the paths, in any order
random_samples(working, k) ==
    {[i \in 1..k |-> working[idx[i]]] :
        idx \in {f \in [1..k -> 1..Len(working)] : \A i, j \in 1..k : i # j => f[i] # f[j]}}

\* sorted(final_paths, key=|target_length - path length|), a stable sort
RECURSIVE sorted_final_paths(_, _, _, _)
sorted_final_paths(G, ov, target_length, found) ==
    IF found = <<>> THEN <<>>
    ELSE Bind([i \in 1..Len(found) |-> Abs(target_length - get_path_length(G, ov, found[i]))],
              LAMBDA keys :
         Bind(CHOOSE i \in 1..Len(found) :
                  /\ \A j \in 1..Len(found) : keys[i] <= keys[j]
                  /\ \A j \in 1..(i-1) : keys[j] > keys[i],
              LAMBDA i :
         Bind(SubSeq(found, 1, i - 1) \o SubSeq(found, i + 1, Len(found)), LAMBDA rest :
              <<found[i]>> \o sorted_final_paths(G, ov, target_length, rest))))


\* lengths of the inner segments 2 and 3, in units of 50 bases
PathLengths == {1, 2}

\* depths of the inner segment 2; segments 1, 3 and 4 have depth 10
PathDepths == {10, 15}

\* the L lines of the graphs all_paths runs on, in file order
PathLinkPool ==
    <<<<1, 2>>, <<1, 3>>, <<2, 4>>, <<3, 4>>, <<2, 2>>, <<2, 3>>, <<3, 2>>, <<1, 4>>, <<3, 1>>>>

\* most L lines of such a graph
MaxPathLinks == 4

\* values of min_length, max_length and max_path_count; target_length is 4
MinLengths == {0, 1}

MaxLengths == {2, 6}

MaxPathCounts == {0, 1, 10}

InitAllPaths ==
    \E chosen \in SUBSET (1..Len(PathLinkPool)) :
    \E inner \in PathLengths : \E depth \in PathDepths : \E ov \in {0, 1} :
    \E copies \in {EmptyDict, 2 :> <<5, 5>>} :
        /\ Cardinality(chosen) <= MaxPathLinks
        /\ forward_links = loaded_forward_links(LinesOf(PathLinkPool, chosen))
        /\ reverse_links = build_reverse_links(forward_links,
                                               loaded_key_order(LinesOf(PathLinkPool, chosen)))
        /\ segments = <<Segment(10, BasesOfLength(2), "none"),
                        Segment(depth, BasesOfLength(inner), "none"),
                        Segment(10, BasesOfLength(inner), "none"),
                        Segment(10, BasesOfLength(2), "none")>>
        /\ seg_order = <<1, 2, 3, 4>>
        /\ copy_depths = copies
        /\ paths = EmptyDict
        /\ overlap = ov
        /\ raised = "none"
        /\ last = Last("load", 0, 0, <<>>, 0)
        /\ pre = CurG
        /\ ops = 0
        /\ NoBridging

\* what a step of all_paths leaves alone
AllPathsFrame ==
    UNCHANGED <<graph_vars, sorted_bridges, bridge_i, min_bridge_qual, right_bridged,
                left_bridged, seg_nums_used_in_bridges, single_copy_nums, applied,
                removed_segments>>

\* the call up to the while loop
AllPathsStart(start, end, min_length, target_length, max_length, max_path_count) ==
    /\ Idle
    /\ last' = Last("all_paths", start, end,
                    <<min_length, target_length, max_length, max_path_count>>, 0)
    /\ pre' = CurG
    /\ ops' = ops + 1
    /\ final_paths' = <<>>
    /\ IF start \notin DOMAIN forward_links
       THEN working_paths' = <<>> /\ pc' = "idle" /\ raised' = "none"
       ELSE IF Abs(start) \notin DOMAIN segments \/ Abs(end) \notin DOMAIN segments
       THEN working_paths' = <<>> /\ pc' = "idle" /\ raised' = "KeyError"
       ELSE IF start_end_depth(CurG, overlap, start, end)[2] = 0
       THEN working_paths' = <<>> /\ pc' = "idle" /\ raised' = "ZeroDivisionError"
       ELSE /\ working_paths' = [i \in 1..Len(forward_links[start]) |->
                                    <<forward_links[start][i]>>]
            /\ pc' = "all_paths"
            /\ raised' = "none"
    /\ AllPathsFrame

\* one pass of the while loop
AllPathsStep ==
    /\ raised = "none" /\ pc = "all_paths" /\ working_paths # <<>>
    /\ \E res \in {all_paths_pass(CurG, overlap, start_end_depth(CurG, overlap, last.a, last.b),
                                  last.b, last.path[1], last.path[3], working_paths, 1,
                                  [final |-> <<>>, new |-> <<>>, exc |-> "none"])} :
           /\ final_paths' = final_paths \o res.final
           /\ raised' = res.exc
           /\ IF Len(res.new) > max_working_paths
              THEN working_paths' \in random_samples(res.new, max_working_paths)
              ELSE working_paths' = res.new
    /\ UNCHANGED <<last, pre, ops, pc>>
    /\ AllPathsFrame

\* the sort and the trim after the loop
AllPathsFinish ==
    /\ raised = "none" /\ pc = "all_paths" /\ working_paths = <<>>
    /\ \E sorted \in {sorted_final_paths(CurG, overlap, last.path[2], final_paths)} :
           final_paths' = IF last.path[4] # 0 THEN Prefix(sorted, last.path[4]) ELSE sorted
    /\ pc' = "idle"
    /\ last' = [last EXCEPT !.ret = 1]
    /\ UNCHANGED <<working_paths, pre, ops, raised>>
    /\ AllPathsFrame

NextAllPaths ==
    \/ \E start \in {1, 4} : \E end \in {4} :
       \E min_length \in MinLengths : \E max_length \in MaxLengths :
       \E max_path_count \in MaxPathCounts :
           AllPathsStart(start, end, min_length, 4, max_length, max_path_count)
    \/ AllPathsStep
    \/ AllPathsFinish

\* the interpreter always runs the next pass of the loop
SpecAllPaths == InitAllPaths /\ [][NextAllPaths]_vars /\ WF_vars(NextAllPaths)


\* all_paths has returned its list, now in final_paths
AllPathsReturned == last.op = "all_paths" /\ pc = "idle" /\ raised = "none"

\* the number of bases of a path: the lengths of its segments less one
\* overlap for every link between two of them; no bases for no segments
PathBases(G, ov, p) ==
    IF p = <<>> THEN 0
    ELSE SumSeq([i \in 1..Len(p) |-> Len(G.segments[Abs(p[i])].forward_sequence)])
             - (Len(p) - 1) * ov

\* start -> p1 -> ... -> pk -> end are links of G
IsChain(G, start, p, end) ==
    LET chain == <<start>> \o p \o <<end>>
    IN  \A i \in 1..(Len(chain) - 1) : has_link(G.f, chain[i], chain[i + 1])

\* C24: every path all_paths returns is a chain of links from start to end
\* that holds neither end point as its first or last step, with min_len <=
\* path length <= max_len; the list is ordered by non-decreasing
\* |target_len - path length| and has at most max_count entries; it is empty
\* when start has no outgoing links; and on S->A->E, S->B->E with inner
\* segments of 100 bases and no overlap all_paths(S, E, 50, 200, 300, 10)
\* returns [A] and [B]
C24_AllPaths ==
    AllPathsReturned =>
        LET G == CurG
            start == last.a
            end == last.b
            min_len == last.path[1]
            target_len == last.path[2]
            max_len == last.path[3]
            max_count == last.path[4]
            distance(i) == Abs(target_len - PathBases(G, overlap, final_paths[i]))
        IN  /\ \A i \in 1..Len(final_paths) :
                   /\ IsChain(G, start, final_paths[i], end)
                   /\ min_len <= PathBases(G, overlap, final_paths[i])
                   /\ PathBases(G, overlap, final_paths[i]) <= max_len
            /\ \A i \in 1..(Len(final_paths) - 1) : distance(i) <= distance(i + 1)
            /\ max_count # 0 => Len(final_paths) <= max_count
            /\ Get(forward_links, start) = <<>> => final_paths = <<>>
            /\ (/\ overlap = 0
                /\ forward_links = (1 :> <<2, 3>>) @@ (2 :> <<4>>) @@ (3 :> <<4>>)
                                     @@ (-4 :> <<-2, -3>>) @@ (-2 :> <<-1>>) @@ (-3 :> <<-1>>)
                /\ Len(segments[2].forward_sequence) = 2
                /\ start = 1 /\ end = 4
                /\ min_len = 1 /\ max_len = 6 /\ max_count = 10)
               => final_paths = <<<<2>>, <<3>>>>


\* all_paths from segment 1 to segment 4 with the widest limits
NextAllPathsLoop ==
    \/ AllPathsStart(1, 4, 0, 4, 6, 0)
    \/ AllPathsStep
    \/ AllPathsFinish

\* the interpreter always runs the next pass of the loop
SpecAllPathsLoop == InitAllPaths /\ [][NextAllPathsLoop]_vars /\ WF_vars(NextAllPathsLoop)

\* the caps the claim allows for segment n: twice the largest of the number
\* of its copy depths, depth(n) / start-end depth rounded to a nearest
\* integer, and 1
Caps(G, ov, start, end, n) ==
    LET sed == start_end_depth(G, ov, start, end)
        p == G.segments[n].depth * sed[2]
        nearest == {r \in (p \div sed[1])..((p \div sed[1]) + 1) :
                       2 * Abs(p - r * sed[1]) <= sed[1]}
        copies == IF n \in DOMAIN G.copy_depths THEN Len(G.copy_depths[n]) ELSE 0
    IN  {2 * Max(Max(copies, r), 1) : r \in nearest}

\* how often path p holds segment n, on either strand
Occurrences(p, n) == Count(n, p) + Count(-n, p)

\* C30: all_paths comes to its end on every graph, with cycles and with
\* steps that add no length, and no working path and no returned path holds
\* a segment n more than cap(n) times, both strands counted
C30_AllPathsTerminates ==
    /\ [](last.op = "all_paths" /\ raised = "none" =>
             \A p \in Range(working_paths) \cup Range(final_paths) :
             \A n \in DOMAIN segments :
                 \E cap \in Caps(CurG, overlap, last.a, last.b, n) : Occurrences(p, n) <= cap)
    /\ (pc = "all_paths") ~> (pc = "idle" \/ raised # "none")

\* on a graph with the loop 2 -> 2, whose steps add no length, all_paths
\* returned a path that holds segment 2 as often as its cap allows
C30_Witness ==
    /\ AllPathsReturned
    /\ overlap = 1 /\ Len(segments[2].forward_sequence) = 1
    /\ has_link(forward_links, 2, 2)
    /\ \E p \in Range(final_paths) :
           Caps(CurG, overlap, last.a, last.b, 2) = {Occurrences(p, 2)}


----------------------------------------------------------------------------
(* determine_copy_depth on linear chains 1 -> 2 -> ... -> k whose first    *)
(* segment holds most of the bases.                                        *)

\* numbers of segments of a chain
ChainLengths == {3, 4}

\* read depths of the segments of a chain
ChainDepths == {10, 12, 14, 20}

\* lengths of the segments of a chain, in units of 500 bases
ChainSegmentLengths == <<6, 2, 2, 1>>

InitChain ==
    \E count \in ChainLengths :
    \E depths \in [1..count -> ChainDepths] :
        LoadedGraph([n \in 1..count |->
                        Segment(depths[n], BasesOfLength(ChainSegmentLengths[n]), "none")],
                    [i \in 1..(count - 1) |-> <<i, i + 1>>])

SpecChain == InitChain /\ [][NextCopyDepth]_vars /\ WF_vars(NextCopyDepth)

\* the first seeding of determine_copy_depth gave copy depths to segment 1 alone
SeededAtOneEnd ==
    DOMAIN initial_single_copy_segments(CurG, single_copy_depth_doubled(CurG, overlap)) = {1}

\* the first run of the merge loop of determine_copy_depth_part_2 has ended
FirstSweepDone ==
    last.op = "merge_copy_depths" /\ last.ret = 0 /\ last.a = 1 /\ raised = "none"

\* the segments of the chain up to the first one whose depth differs from
\* the depth of the segment before it by 20% of its own depth or more
WithinTolerance ==
    {j \in DOMAIN segments :
        \A i \in 1..(j - 1) :
            5 * Abs(segments[i].depth - segments[i + 1].depth) < segments[i + 1].depth}

\* C25 as stated: on a chain in which only the first segment has copy
\* depths, one run of the merge loop leaves every segment of the chain with
\* copy depths
C25_ChainSweep ==
    (SeededAtOneEnd /\ FirstSweepDone) => DOMAIN copy_depths = DOMAIN segments

\* C25, amended: on such a chain one run of the merge loop gives copy depths,
\* one copy of its own depth each, to the segments up to the first one whose
\* depth differs from its predecessor's by the tolerance (20% of its own
\* depth) or more, and to no segment from there on; it reaches every segment
\* when no depth of the chain differs that much from the one before
C25_ChainSweepAmended ==
    (SeededAtOneEnd /\ FirstSweepDone) =>
        /\ DOMAIN copy_depths = WithinTolerance
        /\ \A n \in DOMAIN copy_depths : copy_depths[n] = <<<<segments[n].depth, 1>>>>

\* a chain of four segments of depths 10, 12, 14, 12, seeded at segment 1,
\* has all its copy depths after the first run of the merge loop
C25_Witness ==
    /\ SeededAtOneEnd /\ FirstSweepDone
    /\ Len(segments) = 4
    /\ segments[1].depth = 10 /\ segments[2].depth = 12
    /\ DOMAIN copy_depths = {1, 2, 3, 4}


----------------------------------------------------------------------------
(* repair_multi_way_junctions called on a loaded graph, and nothing else.  *)

NextRepair == RepairJunction

\* the while loop goes on to its next pass as long as the call has not ended
SpecRepair == Init /\ [][NextRepair]_vars /\ WF_vars(RepairJunction)

\* (S, E) is a multi-way junction of the maps f and r: two or more segments
\* S that each lead to exactly E, two or more segments E that are each
\* reached from exactly S
MultiWayJunction(f, r, S, E) ==
    /\ Cardinality(S) >= 2
    /\ Cardinality(E) >= 2
    /\ \A s \in S : Range(Get(f, s)) = E
    /\ \A e \in E : Range(Get(r, e)) = S

\* some multi-way junction exists; the E of a junction is the successor set
\* of a segment and its S the predecessor set of a segment
JunctionRemains(f, r) ==
    \E S \in {Range(r[x]) : x \in DOMAIN r}, E \in {Range(f[x]) : x \in DOMAIN f} :
        MultiWayJunction(f, r, S, E)

\* repair_multi_way_junctions has returned, after one or more rewrites or
\* from its first pass
RepairReturned ==
    /\ pc = "idle"
    /\ raised = "none"
    /\ last.op = "repair_junction" \/ ~has_junction(CurG)

\* C26: a call of repair_multi_way_junctions comes to an end, and when it
\* has returned the graph holds no pair (S, E), two or more segments each,
\* with every s of S leading to exactly E and every e of E reached from
\* exactly S
C26_RepairTerminates ==
    /\ [](RepairReturned => ~JunctionRemains(forward_links, reverse_links))
    /\ (pc = "repair") ~> (pc = "idle" \/ raised # "none")

\* the call has returned after the rewrite of a multi-way junction, which
\* took the junction of the other strand with it
C26_Witness ==
    /\ RepairReturned
    /\ last.op = "repair_junction"
    /\ JunctionRemains(pre.f, pre.r)
    /\ ~JunctionRemains(forward_links, reverse_links)


----------------------------------------------------------------------------
(* dead_end_change_if_deleted against the dead ends remove_segments leaves *)

\* remove_segments([n]) has returned, n a segment of the graph before
RemovedOne ==
    /\ Returned
    /\ last.op = "remove_segments"
    /\ Len(last.path) = 1
    /\ last.path[1] \in DOMAIN pre.segments

\* C27: for every segment n, hairpin and self-linked ones included,
\* dead_end_change_if_deleted(n) is total_dead_end_count() after
\* remove_segments([n]) minus total_dead_end_count() before
C27_DeadEndChange ==
    RemovedOne =>
        LET change == dead_end_change_if_deleted(pre, last.path[1])
        IN  /\ change.exc = "none"
            /\ change.val = total_dead_end_count(CurG) - total_dead_end_count(pre)


----------------------------------------------------------------------------
(* determine_copy_depth on graphs in which a segment has one predecessor   *)
(* that leads to it alone and one that also leads elsewhere.               *)

ExclusiveLinkPool == <<<<1, 3>>, <<2, 3>>, <<2, 4>>, <<3, 4>>>>

ExclusiveDepths == {10, 20}

InitExclusive ==
    \E chosen \in SUBSET (1..Len(ExclusiveLinkPool)) :
    \E depths \in [1..4 -> ExclusiveDepths] :
        LoadedGraph([n \in 1..4 |-> Segment(depths[n], BasesOfLength(CopyLengths[n]), "none")],
                    LinesOf(ExclusiveLinkPool, chosen))

SpecExclusive == InitExclusive /\ [][NextCopyDepth]_vars /\ WF_vars(NextCopyDepth)

\* the unsigned neighbours when every one of them passes the test, no
\* segment otherwise
AllOrNothing(neighbours, passes(_)) ==
    IF \A i \in 1..Len(neighbours) : passes(neighbours[i]) THEN AbsSeq(neighbours) ELSE <<>>

\* C28: get_exclusive_inputs(n) is the list of the unsigned predecessors of
\* n when every predecessor has n as its only successor and is empty as
\* soon as one predecessor leads elsewhere too, get_exclusive_outputs(n)
\* likewise with the successors of n; so a segment that merge_copy_depths
\* assigns has all its predecessors, or all its successors, as sources
C28_AllOrNothing ==
    last.op = "merge_copy_depths" =>
        /\ \A n \in DOMAIN pre.segments \ DOMAIN pre.copy_depths :
               /\ get_exclusive_inputs(pre, n)
                      = AllOrNothing(Get(pre.r, n), LAMBDA x : Range(Get(pre.f, x)) = {n})
               /\ get_exclusive_outputs(pre, n)
                      = AllOrNothing(Get(pre.f, n), LAMBDA x : Range(Get(pre.r, x)) = {n})
        /\ \A n \in DOMAIN copy_depths \ DOMAIN pre.copy_depths :
               \E sources \in {Get(pre.r, n), Get(pre.f, n)} :
                   /\ sources # <<>>
                   /\ \A i \in 1..Len(sources) : Abs(sources[i]) \in DOMAIN pre.copy_depths
                   /\ Len(copy_depths[n]) = Len(source_copy_depths(pre.copy_depths, AbsSeq(sources)))


----------------------------------------------------------------------------
(* assign_single_copy_depth against the segments it may seed               *)

\* n has no copy depth in G, is at least min_single_copy_length long and
\* has one successor and one predecessor
MaySeed(G, n) ==
    /\ n \in DOMAIN G.segments \ DOMAIN G.copy_depths
    /\ get_length(G.segments[n]) >= min_single_copy_length
    /\ Len(Get(G.f, n)) = 1
    /\ Len(Get(G.r, n)) = 1

\* C29: a segment that assign_single_copy_depth seeds had no copy depth,
\* is at least 1000 bp long and has exactly one successor and exactly one
\* predecessor, and no segment of that kind is longer; a segment with no
\* link on one of its ends is never seeded
C29_SeedsOneLinkPerEnd ==
    last.op = "assign_single_copy_depth" /\ last.ret = 1 =>
        \A n \in DOMAIN copy_depths \ DOMAIN pre.copy_depths :
            /\ MaySeed(pre, n)
            /\ \A m \in DOMAIN pre.segments :
                   MaySeed(pre, m) => get_length(pre.segments[m]) <= get_length(pre.segments[n])

====
